---- MODULE Spec2Model ----
(***************************************************************************)
(* The NSE announcement monitors: CompleteNSEMonitor (stock_webhook.py),   *)
(* IncrementalNSEMonitor (nse_monitor.py) and SimpleNSECurlMonitor         *)
(* (simple_nse_monitor.py), and the stand-alone NSEDownloader              *)
(* (nse_downloader.py).  A monitor polls the feed, deduplicates against    *)
(* seen_items, downloads the linked file through its list of methods and   *)
(* persists the cache and (in the incremental monitor) the retry queue.    *)
(* NSEDownloader.smart_download is called with a url, a file name and a    *)
(* list of methods.  Strings are sequences of one-character strings so     *)
(* that the id and filename conversions are computed, not assumed.         *)
(***************************************************************************)
EXTENDS Integers, Sequences, FiniteSets, TLC

VARIABLES
    variant,        \* which class runs: "Complete" | "Incremental" | "Simple" |
                    \* "Downloader"
    methods,        \* the ordered list of download methods of the orchestrator
    download_pdfs,  \* constructor flag self.download_pdfs
    pc,             \* position of the poller process
    cycle,          \* number of cycles (Downloader: calls) started, the clock
    restarts,       \* number of process kills followed by a fresh start
    items,          \* latest_items / latest_entries of the running cycle
    idx,            \* index of the next item of the for loop
    new_count,      \* new_count of the running cycle
    seen_items,     \* self.seen_items (in memory)
    cacheFile,      \* the persisted cache file
    retryFile,      \* retry_downloads.json
    pending,        \* retry_queue list held in memory while the file is rewritten
    disk,           \* nse_downloads/: filename -> file
    dl,             \* the running / last call of the download orchestrator
    log,            \* download_log.txt: one entry per line written
    failed_log,     \* failed_downloads.txt: one entry per line written
    downloads,      \* history: the records the orchestrator was called for by this process
    failures,       \* history: the downloads of the running cycle that returned Failure
    durable_queue,  \* history: the last complete queue retry_downloads.json held
    retried,        \* history: the entries the running replay pass handed to the
                    \* orchestrator, each with the result it got
    fetched,        \* history: "ok" | "failed" while a cycle runs whose fetch and
                    \* parse succeeded | failed, "none" between cycles
    skipped,        \* history: ids of the new records the running cycle's feed
                    \* lists only beyond max_items
    persisted_seen, \* history: the seen_items list this process last loaded or saved
    fstep,          \* position of one fetch of the feed: "idle", "ran", "fetched", "parsed",
                    \* "ranged", "full", "done"
    response,       \* what the fetch got: subprocess.run's outcome or the HTTP response
    rss_content,    \* the value fetch_rss_with_curl returned
    parsed,         \* the value parse_rss_manually returned
    fell_back,      \* method4_http_range_requests went on to method1_process_only_latest_items
    call,           \* the arguments create_safe_filename is called with
    names,          \* the filenames its calls returned, each with the time of the call
    last_check_time, \* self.last_check_time of the incremental monitor, NoTime for None
    users,          \* the users collection of the API's database
    reqs,           \* the /api/register requests being handled, one per worker thread
    num_threads, \* num_threads of the running method4_threaded_download call, 0 outside one
    file_size, \* file_size read from the content-length of the HEAD response, 0 before
    futures, \* the futures of the worker pool, part index -> state and response of download_chunk
    part_files, \* the files {filename}.part{i} on disk, part index -> file
    outfile, \* the target file method4_threaded_download assembles
    combined, \* number of part files the combining loop has written to the target
    completed, \* history, the part indexes in the order their workers finished
    mpc, \* position of method4_threaded_download, "idle", "head", "submit", "wait", "combine", "returned"
    mret, \* its return value, "none", "True", "False"
    check_interval, \* self.check_interval, the seconds the run loop sleeps between cycles
    slept, \* the argument of the last time.sleep call of the run loop, 0 before the first
    aborted, \* history, the downloads an exception cut short, each with the id of its record
    stream, \* the part of the response body iter_content has not delivered yet
    feed_items, \* history, the item elements of the response body, in order
    xml_content, \* xml_content of method2_streaming_xml_parser
    items_processed, \* its counter items_processed
    streamed, \* history, the item_xml strings it parsed and processed, in order
    spc \* position of method2_streaming_xml_parser, "idle", "streaming", "done"

vars == << variant, methods, download_pdfs, pc, cycle, restarts, items, idx,
           new_count, seen_items, cacheFile, retryFile, pending, disk, dl, log,
           failed_log, downloads, failures, durable_queue, retried, fetched, skipped,
           persisted_seen, fstep, response, rss_content, parsed, fell_back, call, names,
           last_check_time, users, reqs,
           num_threads, file_size, futures, part_files, outfile, combined, completed, mpc, mret,
           check_interval, slept,
           aborted,
           stream, feed_items, xml_content, items_processed, streamed, spc >>

-----------------------------------------------------------------------------
(* Bounds of the model *)

\* longest feed the source serves in one cycle
MaxFeed == 3
\* cycles a run of the model starts
MaxCycles == 2
\* kills of the process followed by a restart
MaxRestarts == 1
\* max_items / max_items_to_process given to the constructor
max_items == 2
\* most item elements of a feed document
MaxDocItems == 2

-----------------------------------------------------------------------------
(* Strings *)

\* [a-zA-Z]
Letters == {"A", "B", "C", "D", "E", "F", "G", "H", "I", "J", "K", "L", "M", "N", "O", "P",
            "Q", "R", "S", "T", "U", "V", "W", "X", "Y", "Z", "a", "b", "c", "d", "e", "f",
            "g", "h", "i", "j", "k", "l", "m", "n", "o", "p", "q", "r", "s", "t", "u", "v",
            "w", "x", "y", "z"}
\* [0-9]
Digits == {"0", "1", "2", "3", "4", "5", "6", "7", "8", "9"}
\* \s, and what str.strip() removes
Whitespace == {" ", "\t", "\n"}
AlNum == Letters \cup Digits

EndsWith(s, suf) ==
    /\ Len(s) >= Len(suf)
    /\ SubSeq(s, Len(s) - Len(suf) + 1, Len(s)) = suf

\* ''.join(parts)
RECURSIVE Flatten(_)
Flatten(parts) ==
    IF Len(parts) = 0 THEN << >>
    ELSE IF Len(parts) = 1 THEN parts[1]
    ELSE Flatten(SubSeq(parts, 1, Len(parts) \div 2))
            \o Flatten(SubSeq(parts, Len(parts) \div 2 + 1, Len(parts)))

\* str.replace(old, new) for a one-character old; new is a string
Replace(s, old, new) ==
    Flatten([i \in 1..Len(s) |-> IF s[i] = old THEN new ELSE << s[i] >>])

\* mutant: nothing is removed
Keep_All(s, class) == s

\* re.sub(r'[^...]', '', s): keep the characters of the class
Keep(s, class) == SelectSeq(s, LAMBDA c : c \in class)

\* str.strip() of whitespace
RECURSIVE LStrip(_, _)
LStrip(s, class) ==
    IF s # << >> /\ Head(s) \in class THEN LStrip(Tail(s), class) ELSE s

RECURSIVE RStrip(_, _)
RStrip(s, class) ==
    IF s # << >> /\ s[Len(s)] \in class THEN RStrip(SubSeq(s, 1, Len(s) - 1), class) ELSE s

Strip(s, class) == RStrip(LStrip(s, class), class)

\* re.sub(r'C+', to, s): every maximal run of characters of the class becomes `to`
SubRuns(s, class, to) ==
    LET starts == SelectSeq([i \in 1..Len(s) |-> i],
                            LAMBDA i : s[i] \notin class \/ i = 1 \/ s[i - 1] \notin class)
    IN  Flatten([k \in 1..Len(starts) |->
                    IF s[starts[k]] \in class THEN to ELSE << s[starts[k]] >>])

\* re.sub(r'_{2,}', '_', s)
CollapseUnderscores(s) == SubRuns(s, {"_"}, << "_" >>)

PDF == << ".", "p", "d", "f" >>
XML == << ".", "x", "m", "l" >>

\* datetime.now().strftime(...): digits and underscores only; n is the clock
NowStr(n) == << "2", "0", "_" >> \o (IF n % 2 = 0 THEN << "0" >> ELSE << "1" >>)

\* shortest name create_safe_filename keeps
MinNameLen == 5
\* longest name create_safe_filename returns untruncated
MaxNameLen == 200
\* characters of the name kept in front of the extension on truncation
TruncLen == 190

FallbackPrefix ==
    << "N", "S", "E", "_", "A", "n", "n", "o", "u", "n", "c", "e", "m", "e", "n", "t", "_" >>

\* mutant: the extension is always .pdf
FileExt_Pdf(file_url) == PDF

\* the extension chosen from the url suffix
FileExt(file_url) ==
    IF EndsWith(file_url, PDF) THEN PDF
    ELSE IF EndsWith(file_url, XML) THEN XML
    ELSE PDF

\* mutant: every name carries the time of the call
create_safe_filename_Stamped(company, pub_date, file_url, now) ==
    FallbackPrefix \o now \o FileExt(file_url)

\* CompleteNSEMonitor.create_safe_filename; now is the invocation time string
create_safe_filename(company, pub_date, file_url, now) ==
    LET company_clean ==
            SubRuns(Strip(Keep(company, AlNum \cup Whitespace), Whitespace),
                    Whitespace, << "_" >>)
        date_parts == Replace(Replace(Replace(pub_date, "-", << >>), ":", << >>),
                              " ", << "_" >>)
        date_clean == IF pub_date # << >>
                      THEN Keep(date_parts, AlNum \cup {"_"})
                      ELSE now
        file_ext == FileExt(file_url)
        joined == company_clean \o << "_" >> \o date_clean \o file_ext
        cleaned == Strip(CollapseUnderscores(joined), {"_"})
        valid == IF cleaned = << >> \/ cleaned = file_ext \/ Len(cleaned) < MinNameLen
                 THEN FallbackPrefix \o now \o file_ext
                 ELSE cleaned
    IN  IF Len(valid) > MaxNameLen
        THEN SubSeq(valid, 1, TruncLen) \o file_ext
        ELSE valid

\* the file name IncrementalNSEMonitor.print_announcement builds
incremental_filename(title, published) ==
    LET company_name == Replace(Replace(Replace(title, " ", << "_" >>), "/", << "_" >>),
                                "\\", << "_" >>)
        pub_date == Replace(Replace(Replace(Replace(published, "-", << >>),
                                            " ", << "_" >>), ":", << >>), ",", << >>)
        safe_filename == company_name \o << "_" >> \o pub_date \o PDF
    IN  Keep(safe_filename, AlNum \cup {".", "_", "-"})

\* the file name SimpleNSECurlMonitor.process_announcement builds
simple_filename(title, pubDate) ==
    LET company == Replace(Replace(title, " ", << "_" >>), "/", << "_" >>)
        pub_date == Replace(Replace(Replace(pubDate, "-", << >>), " ", << "_" >>),
                            ":", << >>)
        filename == company \o << "_" >> \o pub_date \o PDF
    IN  Keep(filename, AlNum \cup {"_", "-", "."})

-----------------------------------------------------------------------------
(* Feed records and ids *)

Rec(t, d, l) == [title |-> t, pubDate |-> d, link |-> l]

\* the records the source may list
Records == {
    Rec(<< "A" >>, << "1" >>, << "a", ".", "p", "d", "f" >>),
    Rec(<< "A" >>, << "1" >>, << "b", ".", "x", "m", "l" >>),
    Rec(<< "A" >>, << "1" >>, << "d", ".", "p", "d", "f" >>),
    Rec(<< "B", " ", "b" >>, << "1", "-", "2" >>, << "c", ".", "h", "t", "m" >>) }

\* CompleteNSEMonitor.check_announcements: f"{title}-{pubDate}"
complete_item_id(item) == item.title \o << "-" >> \o item.pubDate

\* IncrementalNSEMonitor.generate_item_id: f"{title}-{published}-{link}"
generate_item_id(entry) ==
    entry.title \o << "-" >> \o entry.pubDate \o << "-" >> \o entry.link

\* SimpleNSECurlMonitor.check_announcements: f"{title}-{pubDate}"
simple_item_id(item) == item.title \o << "-" >> \o item.pubDate

\* IncrementalNSEMonitor.method2_streaming_xml_parser: f"{title}-{pubDate}"
streaming_item_id(item_data) == item_data.title \o << "-" >> \o item_data.pubDate

ItemId(v, item) ==
    CASE v = "Complete" -> complete_item_id(item)
      [] v = "Simple" -> simple_item_id(item)
      [] OTHER -> generate_item_id(item)

\* the spec's RecordID: title, publishedAt and link
RecordID(item) == << item.title, item.pubDate, item.link >>

-----------------------------------------------------------------------------
(* Files of nse_downloads/ *)

Absent == [st |-> "absent", src |-> << >>]
Empty(url) == [st |-> "empty", src |-> url]
Partial(url) == [st |-> "partial", src |-> url]
Full(url) == [st |-> "full", src |-> url]

\* os.path.exists(filepath)
Exists(file) == file.st # "absent"
\* os.path.getsize(filepath) > 0
NonEmpty(file) == file.st \in {"partial", "full"}

Filenames ==
    { create_safe_filename(r.title, r.pubDate, r.link, NowStr(0)) : r \in Records }
    \cup { incremental_filename(r.title, r.pubDate) : r \in Records }
    \cup { simple_filename(r.title, r.pubDate) : r \in Records }

\* what subprocess.run([tool, '-o', filepath, ..., url], timeout=360) can do to a
\* target that currently holds cur: exit with a code, or raise
SubprocessRuns(url, cur) ==
    { [kind |-> "exit", rc |-> 0, file |-> Full(url)],
      [kind |-> "exit", rc |-> 0, file |-> Empty(url)],
      [kind |-> "exit", rc |-> 1, file |-> cur],
      [kind |-> "exit", rc |-> 1, file |-> Empty(url)],
      [kind |-> "exit", rc |-> 1, file |-> Partial(url)],
      [kind |-> "TimeoutExpired", rc |-> 1, file |-> Partial(url)],
      [kind |-> "TimeoutExpired", rc |-> 1, file |-> cur],
      [kind |-> "FileNotFoundError", rc |-> 1, file |-> cur] }

\* whether open("download_log.txt", "a") and the write succeed
LogWrites == {TRUE, FALSE}

\* result of one strategy: its return value, the target file it leaves, whether
\* it appended a line to download_log.txt, whether it wrote bytes to the target,
\* whether it ended by an exception it does not catch
Outcome(ret, file, logged, wrote) ==
    [ret |-> ret, file |-> file, logged |-> logged, wrote |-> wrote, raised |-> FALSE]

\* the strategy lets an exception escape to its caller
Raises(file, wrote) ==
    [ret |-> FALSE, file |-> file, logged |-> FALSE, wrote |-> wrote, raised |-> TRUE]

-----------------------------------------------------------------------------
(* CompleteNSEMonitor download strategies *)

\* except Exception: if os.path.exists(filepath): os.remove(filepath); return False
complete_cleanup(file, wrote) == Outcome(FALSE, Absent, FALSE, wrote)

\* CompleteNSEMonitor._download_with_requests
complete_requests(url, cur) ==
    \* session.get / raise_for_status raises before the file is opened
    { complete_cleanup(cur, FALSE) }
    \* the stream breaks after some chunks were written
    \cup { complete_cleanup(Partial(url), TRUE) }
    \* the body (possibly of zero bytes) is written, then the log line
    \cup { IF lw THEN Outcome(TRUE, body, TRUE, TRUE) ELSE complete_cleanup(body, TRUE) :
             lw \in LogWrites, body \in {Full(url), Empty(url)} }

\* the part of _download_with_curl / _download_with_wget after subprocess.run
complete_after_run(run, lw) ==
    IF run.kind # "exit"
    THEN complete_cleanup(run.file, run.file.st = "partial")
    ELSE IF run.rc = 0 /\ Exists(run.file)
         THEN IF NonEmpty(run.file)
              THEN IF lw THEN Outcome(TRUE, run.file, TRUE, TRUE)
                         ELSE complete_cleanup(run.file, TRUE)
              ELSE Outcome(FALSE, Absent, FALSE, FALSE)
         ELSE Outcome(FALSE, run.file, FALSE, NonEmpty(run.file))

\* CompleteNSEMonitor._download_with_curl
complete_curl(url, cur) ==
    { complete_after_run(run, lw) : run \in SubprocessRuns(url, cur), lw \in LogWrites }

\* CompleteNSEMonitor._download_with_wget
complete_wget(url, cur) ==
    { complete_after_run(run, lw) : run \in SubprocessRuns(url, cur), lw \in LogWrites }

-----------------------------------------------------------------------------
(* IncrementalNSEMonitor download strategies *)

\* attempts of _download_method_requests: for attempt in range(3)
RequestsAttempts == 3

\* IncrementalNSEMonitor._download_method_requests from the given attempt on;
\* wrote tells whether an earlier attempt wrote bytes
RECURSIVE incremental_requests_from(_, _, _, _)
incremental_requests_from(url, cur, attempt, wrote) ==
    IF attempt >= RequestsAttempts
    THEN { Outcome(FALSE, cur, FALSE, wrote) }
    ELSE \* the body is written and logged
         { Outcome(TRUE, body, TRUE, TRUE) : body \in {Full(url), Empty(url)} }
         \* the body is written, the log write raises OSError: except Exception: break
         \cup { Outcome(FALSE, Full(url), FALSE, TRUE) }
         \* open(filepath, 'wb') raises OSError: except Exception: break
         \cup { Outcome(FALSE, cur, FALSE, wrote) }
         \* Timeout / RequestException before the file is opened: next attempt
         \cup incremental_requests_from(url, cur, attempt + 1, wrote)
         \* RequestException while the chunks are written: next attempt
         \cup incremental_requests_from(url, Partial(url), attempt + 1, TRUE)

incremental_requests(url, cur) == incremental_requests_from(url, cur, 0, FALSE)

\* the part of _download_method_curl / _download_method_wget after subprocess.run
incremental_after_run(run, lw) ==
    IF run.kind # "exit"
    THEN Outcome(FALSE, run.file, FALSE, run.file.st = "partial")
    ELSE IF run.rc = 0 /\ Exists(run.file)
         THEN IF lw THEN Outcome(TRUE, run.file, TRUE, TRUE)
                    ELSE Outcome(FALSE, run.file, FALSE, TRUE)
         ELSE Outcome(FALSE, Absent, FALSE, NonEmpty(run.file))

\* IncrementalNSEMonitor._download_method_curl
incremental_curl(url, cur) ==
    { incremental_after_run(run, lw) : run \in SubprocessRuns(url, cur), lw \in LogWrites }

\* IncrementalNSEMonitor._download_method_wget
incremental_wget(url, cur) ==
    { incremental_after_run(run, lw) : run \in SubprocessRuns(url, cur), lw \in LogWrites }

-----------------------------------------------------------------------------
(* SimpleNSECurlMonitor download strategy *)

\* the part of download_pdf_with_curl after subprocess.run: an empty file is
\* removed, a timeout removes the file, any other exception leaves it
simple_after_run(run, lw) ==
    IF run.kind = "TimeoutExpired"
    THEN Outcome(FALSE, Absent, FALSE, run.file.st = "partial")
    ELSE IF run.kind # "exit"
    THEN Outcome(FALSE, run.file, FALSE, FALSE)
    ELSE IF run.rc = 0 /\ Exists(run.file)
         THEN IF NonEmpty(run.file)
              THEN IF lw THEN Outcome(TRUE, run.file, TRUE, TRUE)
                         ELSE Outcome(FALSE, run.file, FALSE, TRUE)
              ELSE Outcome(FALSE, Absent, FALSE, FALSE)
         ELSE Outcome(FALSE, run.file, FALSE, NonEmpty(run.file))

\* SimpleNSECurlMonitor.download_pdf_with_curl from subprocess.run on
simple_curl(url, cur) ==
    { simple_after_run(run, lw) : run \in SubprocessRuns(url, cur), lw \in LogWrites }

-----------------------------------------------------------------------------
(* NSEDownloader download methods *)

\* max_retries of method1_requests_with_retry
max_retries == 3

\* NSEDownloader.method1_requests_with_retry from the given attempt on: only
\* requests' exceptions are caught, an OSError of open() escapes
RECURSIVE method1_from(_, _, _, _)
method1_from(url, cur, attempt, wrote) ==
    IF attempt >= max_retries
    THEN { Outcome(FALSE, cur, FALSE, wrote) }
    ELSE \* the body (possibly of zero bytes) is written
         { Outcome(TRUE, body, FALSE, TRUE) : body \in {Full(url), Empty(url)} }
         \* open(filename, 'wb') raises OSError
         \cup { Raises(cur, wrote) }
         \* Timeout / RequestException before the file is opened: next attempt
         \cup method1_from(url, cur, attempt + 1, wrote)
         \* RequestException while the chunks are written: next attempt
         \cup method1_from(url, Partial(url), attempt + 1, TRUE)

method1_requests_with_retry(url, cur) == method1_from(url, cur, 0, FALSE)

\* the part of method2_curl_subprocess / method3_wget_subprocess after
\* subprocess.run: success is exit code 0 and an existing file
downloader_after_run(run) ==
    IF run.kind = "exit" /\ run.rc = 0 /\ Exists(run.file)
    THEN Outcome(TRUE, run.file, FALSE, TRUE)
    ELSE Outcome(FALSE, run.file, FALSE, run.file.st = "partial")

method2_curl_subprocess(url, cur) ==
    { downloader_after_run(run) : run \in SubprocessRuns(url, cur) }

method3_wget_subprocess(url, cur) ==
    { downloader_after_run(run) : run \in SubprocessRuns(url, cur) }

\* NSEDownloader.method4_threaded_download: without a content-length it hands
\* over to method1 (inside its own try); else the parts are fetched and
\* combined into the target; every exception returns False
method4_threaded_download(url, cur) ==
    \* the HEAD request or the fetch of a part raises
    { Outcome(FALSE, cur, FALSE, FALSE) }
    \* no content-length header
    \cup { IF o.raised THEN Outcome(FALSE, o.file, FALSE, o.wrote) ELSE o :
             o \in method1_requests_with_retry(url, cur) }
    \* the parts are combined
    \cup { Outcome(TRUE, body, FALSE, TRUE) : body \in {Full(url), Empty(url)} }
    \* combining raises after some parts were written
    \cup { Outcome(FALSE, Partial(url), FALSE, TRUE) }

\* the method lists smart_download is called with: its default and the list
\* EnhancedNSEMonitor.download_pdf_robust passes
MethodLists == { << "requests", "curl", "wget", "threaded" >>,
                 << "requests", "curl", "wget" >> }

-----------------------------------------------------------------------------
(* The strategies of each orchestrator *)

Strategies == << "requests", "curl", "wget" >>

\* the methods a monitor's orchestrator tries, in order
MethodList(v) == IF v = "Simple" THEN << "curl" >> ELSE Strategies

StrategyOutcomes(v, name, url, cur) ==
    CASE v = "Complete" ->
           (CASE name = "requests" -> complete_requests(url, cur)
              [] name = "curl" -> complete_curl(url, cur)
              [] name = "wget" -> complete_wget(url, cur))
      [] v = "Incremental" ->
           (CASE name = "requests" -> incremental_requests(url, cur)
              [] name = "curl" -> incremental_curl(url, cur)
              [] name = "wget" -> incremental_wget(url, cur))
      [] v = "Simple" -> simple_curl(url, cur)
      [] v = "Downloader" ->
           (CASE name = "requests" -> method1_requests_with_retry(url, cur)
              [] name = "curl" -> method2_curl_subprocess(url, cur)
              [] name = "wget" -> method3_wget_subprocess(url, cur)
              [] name = "threaded" -> method4_threaded_download(url, cur))

-----------------------------------------------------------------------------
(* The persisted JSON files.  kind is "absent" (no file), "partial" (the file
   was opened with 'w' and json.dump has not completed: not parseable) or
   "ok" (a complete document). *)

NoCache == [kind |-> "absent", seen_items |-> {}, stamp |-> 0]
TruncatedCache == [kind |-> "partial", seen_items |-> {}, stamp |-> 0]
\* mutant: save_cache writes an empty seen_items list
CacheDoc_Empty(seen, now) == [kind |-> "ok", seen_items |-> {}, stamp |-> now]
CacheDoc(seen, now) == [kind |-> "ok", seen_items |-> seen, stamp |-> now]

NoQueue == [kind |-> "absent", queue |-> << >>]
TruncatedQueue == [kind |-> "partial", queue |-> << >>]
QueueDoc(q) == [kind |-> "ok", queue |-> q]

\* self.last_check_time = None
NoTime == 0 - 1

\* load_cache of the incremental monitor: the last check time it starts with
load_last_check_time(v, file) ==
    IF v = "Incremental" /\ file.kind = "ok" THEN file.stamp ELSE NoTime

\* mutant: the file is not read
load_cache_Fresh(file) == {}

\* load_cache: the seen set a fresh monitor starts with; a missing file leaves
\* the empty set, an unparseable one raises inside the try and leaves it too
load_cache(file) == IF file.kind = "ok" THEN file.seen_items ELSE {}

\* print_announcement: the retry_queue read before the append; the bare
\* except leaves [] when the file does not parse
read_retry_queue(file) == IF file.kind = "ok" THEN file.queue ELSE << >>

\* the failed_item dict of print_announcement
RetryEntry(entry, filename) ==
    [url |-> entry.link, filename |-> filename, company |-> entry.title,
     date |-> entry.pubDate]

-----------------------------------------------------------------------------
(* The download orchestrator: smart_download_file (Complete),
   download_pdf_with_smart_fallback (Incremental), download_pdf_with_curl
   (Simple) and smart_download (NSEDownloader) *)

\* the guard on the url at the head of the orchestrator
complete_supported(file_url) == EndsWith(file_url, PDF) \/ EndsWith(file_url, XML)
incremental_supported(pdf_url) == pdf_url # << >> /\ EndsWith(pdf_url, PDF)
simple_supported(pdf_url) == EndsWith(pdf_url, PDF)
Supported(v, url) ==
    CASE v = "Complete" -> complete_supported(url)
      [] v = "Incremental" -> incremental_supported(url)
      [] v = "Simple" -> simple_supported(url)
      \* smart_download tests nothing about the url
      [] OTHER -> TRUE

\* mutant: the skip-if-exists test is left out
AlreadyExists_Never(file) == FALSE

\* "Skip if exists": if os.path.exists(filepath): return True
AlreadyExists(file) == Exists(file)

NoCall == [url |-> << >>, filename |-> << >>, invoked |-> << >>, result |-> "none",
           pre |-> Absent, wrote |-> FALSE, escaped |-> ""]

\* the name the monitor gives the file of a record
TargetFilename(v, item, now) ==
    CASE v = "Complete" -> create_safe_filename(item.title, item.pubDate, item.link, now)
      [] v = "Simple" -> simple_filename(item.title, item.pubDate)
      [] OTHER -> incremental_filename(item.title, item.pubDate)

\* whether the monitor calls its orchestrator for a new record:
\* process_announcement (Complete, Simple) and print_announcement (Incremental)
CallsDownload(v, flag, item) ==
    CASE v = "Complete" -> flag /\ complete_supported(item.link)
      [] v = "Simple" -> flag /\ EndsWith(item.link, PDF)
      [] OTHER -> flag /\ item.link # << "N", "o", " ", "L", "i", "n", "k" >>

\* mutant: the membership test on seen_items is left out
IsNew_Always(item_id, seen) == TRUE

\* if item_id not in self.seen_items
IsNew(item_id, seen) == item_id \notin seen

\* entry of the orchestrator: the url guard, the skip-if-exists, else method 1
DlEntry ==
    /\ pc = "dl_call"
    /\ IF ~Supported(variant, dl.url)
       THEN /\ dl' = [dl EXCEPT !.result = "Failure"]
            /\ pc' = "dl_done"
       ELSE IF AlreadyExists(disk[dl.filename])
            THEN /\ dl' = [dl EXCEPT !.result = "Success"]
                 /\ pc' = "dl_done"
            ELSE /\ dl' = dl
                 /\ pc' = methods[1]
    /\ UNCHANGED << users, reqs, stream, feed_items, xml_content, items_processed, streamed, spc, aborted, check_interval, slept, num_threads, file_size, futures, part_files, outfile, combined, completed, mpc, mret, last_check_time, call, names, fstep, response, rss_content, parsed, fell_back, variant, methods, download_pdfs, cycle, restarts, items, idx,
                    new_count, seen_items, cacheFile, retryFile, pending, disk, log,
                    failed_log, downloads, failures,
                    durable_queue, retried, fetched, skipped, persisted_seen >>

\* mutant: the orchestrator returns False as soon as one method failed
Fallback_GivesUp(k, ret) ==
    IF ret THEN [pc |-> "dl_done", result |-> "Success"]
    ELSE [pc |-> "dl_done", result |-> "Failure"]

\* what the orchestrator does after strategy k returned ret: return True on
\* success, go on with the next method on failure, return False after the last
Fallback(k, ret) ==
    IF ret THEN [pc |-> "dl_done", result |-> "Success"]
    ELSE IF k < Len(methods) THEN [pc |-> methods[k + 1], result |-> "none"]
    ELSE [pc |-> "dl_done", result |-> "Failure"]

\* what ends the f-string of a log write: CompleteNSEMonitor writes "\\n", a
\* backslash and the letter n; the other monitors write "\n", a newline
LineEnd(v) == IF v = "Complete" THEN << "\\", "n" >> ELSE << "\n" >>

\* the line a strategy appends to download_log.txt; the simple monitor's line
\* holds no method name
LogLine(v, filename, name) ==
    [filename |-> filename, strategy |-> IF v = "Simple" THEN "" ELSE name,
     end |-> LineEnd(v)]

\* the line smart_download_file appends to failed_downloads.txt
FailedLine(v, url, filename) == [url |-> url, filename |-> filename, end |-> LineEnd(v)]

\* one strategy runs; k is its place in the fallback order
RunStrategy(k) ==
    /\ k <= Len(methods)
    /\ pc = methods[k]
    /\ \E o \in StrategyOutcomes(variant, methods[k], dl.url, disk[dl.filename]),
          fw \in LogWrites :
         LET next == Fallback(k, o.ret)
             \* smart_download_file writes failed_downloads.txt outside any try:
             \* an OSError of that write leaves the orchestrator as an exception
             then == IF o.raised THEN [pc |-> "dl_done", result |-> "Raised"]
                     ELSE IF variant = "Complete" /\ next.result = "Failure" /\ ~fw
                     THEN [pc |-> "dl_done", result |-> "Raised"]
                     ELSE next
             \* smart_download removes the file after a method returned False
             left == IF variant = "Downloader" /\ ~o.raised /\ ~o.ret
                     THEN Absent ELSE o.file
         IN  /\ disk' = [disk EXCEPT ![dl.filename] = left]
             /\ log' = IF o.logged
                       THEN Append(log, LogLine(variant, dl.filename, methods[k]))
                       ELSE log
             /\ dl' = [dl EXCEPT !.invoked = Append(@, methods[k]),
                                 !.result = then.result, !.wrote = o.wrote,
                                 \* the strategy that let an exception escape
                                 !.escaped = IF o.raised THEN methods[k] ELSE @]
             /\ pc' = then.pc
             \* smart_download_file logs the exhausted download
             /\ failed_log' = IF variant = "Complete" /\ then.result = "Failure"
                              THEN Append(failed_log,
                                          FailedLine(variant, dl.url, dl.filename))
                              ELSE failed_log
    /\ UNCHANGED << users, reqs, stream, feed_items, xml_content, items_processed, streamed, spc, aborted, check_interval, slept, num_threads, file_size, futures, part_files, outfile, combined, completed, mpc, mret, last_check_time, call, names, fstep, response, rss_content, parsed, fell_back, variant, methods, download_pdfs, cycle, restarts, items, idx,
                    new_count, seen_items, cacheFile, retryFile, pending, downloads,
                    failures, durable_queue, retried, fetched, skipped, persisted_seen >>

DlRequests == RunStrategy(1)
DlCurl == RunStrategy(2)
DlWget == RunStrategy(3)
DlThreaded == RunStrategy(4)

\* NSEDownloader.smart_download is called: no test of the url, no test for an
\* existing file; the first method of the list runs
SmartDownloadCall ==
    /\ variant = "Downloader"
    /\ pc = "sleep"
    /\ cycle < MaxCycles
    /\ cycle' = cycle + 1
    /\ \E m \in MethodLists, r \in Records, filename \in Filenames :
         /\ methods' = m
         /\ dl' = [NoCall EXCEPT !.url = r.link, !.filename = filename,
                                 !.pre = disk[filename]]
         /\ pc' = m[1]
    /\ UNCHANGED << users, reqs, stream, feed_items, xml_content, items_processed, streamed, spc, aborted, check_interval, slept, num_threads, file_size, futures, part_files, outfile, combined, completed, mpc, mret, last_check_time, call, names, fstep, response, rss_content, parsed, fell_back, variant, download_pdfs, restarts, items, idx, new_count,
                    seen_items, cacheFile, retryFile, pending, disk, log,
                    failed_log, downloads, failures, durable_queue, retried, fetched, skipped, persisted_seen >>

\* smart_download has returned (or raised) to its caller
SmartDownloadReturn ==
    /\ variant = "Downloader"
    /\ pc = "dl_done"
    /\ pc' = "sleep"
    /\ dl' = NoCall
    /\ UNCHANGED << users, reqs, stream, feed_items, xml_content, items_processed, streamed, spc, aborted, check_interval, slept, num_threads, file_size, futures, part_files, outfile, combined, completed, mpc, mret, last_check_time, call, names, fstep, response, rss_content, parsed, fell_back, variant, methods, download_pdfs, cycle, restarts, items, idx,
                    new_count, seen_items, cacheFile, retryFile, pending, disk,
                    log, failed_log, downloads, failures, durable_queue, retried, fetched, skipped, persisted_seen >>

-----------------------------------------------------------------------------
(* The poller: check_announcements (Complete) and smart_incremental_check
   with method1_process_only_latest_items (Incremental) *)

RECURSIVE SeqsUpTo(_, _)
SeqsUpTo(S, n) ==
    IF n = 0 THEN { << >> }
    ELSE LET shorter == SeqsUpTo(S, n - 1)
         IN  shorter \cup { Append(q, x) : q \in { t \in shorter : Len(t) = n - 1 }, x \in S }

\* the item lists a fetched and parsed feed can hold, newest first
Feeds == SeqsUpTo(Records, MaxFeed)

\* the ids of the records a feed lists only beyond its first n that are
\* neither seen already nor listed among the first n
SkippedNew(v, feed, n, seen) ==
    { ItemId(v, feed[i]) : i \in (n + 1)..Len(feed) }
        \ (seen \cup { ItemId(v, feed[i]) : i \in 1..(IF Len(feed) < n THEN Len(feed) ELSE n) })

\* mutant: the whole feed is processed
Latest_All(feed, n) == feed

\* items[:self.max_items]
Latest(feed, n) == SubSeq(feed, 1, IF Len(feed) < n THEN Len(feed) ELSE n)

\* the classes that poll the feed
Monitors == {"Complete", "Incremental", "Simple"}

\* where a cycle goes when it returns before the loop: check_announcements just
\* returns; smart_incremental_check calls save_cache() after method1 returned
AfterEarlyReturn(v) == IF v = "Incremental" THEN "save" ELSE "sleep"

\* where a cycle goes after the loop: check_announcements saves only if
\* new_count > 0, smart_incremental_check always
AfterLoop(v, n) == IF v # "Incremental" /\ n = 0 THEN "sleep" ELSE "save"

\* check_interval=300, the default of every monitor's __init__
DefaultInterval == 300

RetryDelay_Long == 2 * DefaultInterval

\* time.sleep(60) of the run loop's except Exception
RetryDelay == 60

\* the argument of the time.sleep the run loop makes when a cycle ends at
\* position to: time.sleep(self.check_interval) at the end of the try,
\* time.sleep(60) in except Exception; none while the cycle goes on
time_sleep(to, interval, last) ==
    IF to = "sleep" THEN interval
    ELSE IF to = "cooldown" THEN RetryDelay
    ELSE last

\* the fetch fails: fetch_rss_with_curl returns None (Complete), requests.get
\* raises inside method1's try (Incremental)
FetchFails ==
    /\ variant \in Monitors
    /\ pc = "sleep"
    /\ cycle < MaxCycles
    /\ cycle' = cycle + 1
    /\ pc' = AfterEarlyReturn(variant)
    /\ items' = << >>
    /\ idx' = 1
    /\ new_count' = 0
    /\ failures' = {}
    /\ fetched' = IF AfterEarlyReturn(variant) = "sleep" THEN "none" ELSE "failed"
    /\ skipped' = {}
    /\ slept' = time_sleep(pc', check_interval, slept)
    /\ UNCHANGED << users, reqs, stream, feed_items, xml_content, items_processed, streamed, spc, aborted, check_interval, num_threads, file_size, futures, part_files, outfile, combined, completed, mpc, mret, last_check_time, call, names, fstep, response, rss_content, parsed, fell_back, variant, methods, download_pdfs, restarts, seen_items, cacheFile,
                    retryFile, pending, disk, dl, log, failed_log, downloads,
                    durable_queue, retried, persisted_seen >>

\* the feed is fetched and parsed into its items
FetchFeed ==
    /\ variant \in Monitors
    /\ pc = "sleep"
    /\ cycle < MaxCycles
    /\ cycle' = cycle + 1
    /\ \E feed \in Feeds :
         /\ items' = Latest(feed, max_items)
         /\ pc' = IF feed = << >> THEN AfterEarlyReturn(variant) ELSE "loop"
         /\ fetched' = IF feed # << >> THEN "ok"
                       ELSE IF AfterEarlyReturn(variant) = "sleep" THEN "none"
                       ELSE "failed"
         /\ skipped' = SkippedNew(variant, feed, max_items, seen_items)
    /\ idx' = 1
    /\ new_count' = 0
    /\ failures' = {}
    /\ slept' = time_sleep(pc', check_interval, slept)
    /\ UNCHANGED << users, reqs, stream, feed_items, xml_content, items_processed, streamed, spc, aborted, check_interval, num_threads, file_size, futures, part_files, outfile, combined, completed, mpc, mret, last_check_time, call, names, fstep, response, rss_content, parsed, fell_back, variant, methods, download_pdfs, restarts, seen_items, cacheFile,
                    retryFile, pending, disk, dl, log, failed_log, downloads,
                    durable_queue, retried, persisted_seen >>

\* TargetFilename of every record, computed once: for each monitor and
\* record, the name built at an even and at an odd time of the clock
FilenameOf ==
    [v \in Monitors |->
        [r \in Records |-> [n \in 0..1 |-> TargetFilename(v, r, NowStr(n))]]]

\* one iteration of "for item in latest_items" up to the orchestrator call
ProcessItem ==
    /\ pc = "loop"
    /\ idx <= Len(items)
    /\ LET item == items[idx]
           item_id == ItemId(variant, item)
       IN  IF IsNew(item_id, seen_items)
           THEN /\ seen_items' = seen_items \cup {item_id}
                /\ new_count' = new_count + 1
                /\ IF CallsDownload(variant, download_pdfs, item)
                   THEN /\ dl' = [NoCall EXCEPT
                                    !.url = item.link,
                                    !.filename = FilenameOf[variant][item][cycle % 2],
                                    !.pre = disk[FilenameOf[variant][item][cycle % 2]]]
                        /\ downloads' = Append(downloads, item)
                        /\ pc' = "dl_call"
                        /\ idx' = idx
                   ELSE /\ idx' = idx + 1
                        /\ UNCHANGED << dl, downloads, pc >>
           ELSE /\ idx' = idx + 1
                /\ UNCHANGED << seen_items, new_count, dl, downloads, pc >>
    /\ UNCHANGED << users, reqs, stream, feed_items, xml_content, items_processed, streamed, spc, aborted, check_interval, slept, num_threads, file_size, futures, part_files, outfile, combined, completed, mpc, mret, last_check_time, call, names, fstep, response, rss_content, parsed, fell_back, variant, methods, download_pdfs, cycle, restarts, items, cacheFile,
                    retryFile, pending, disk, log, failed_log, failures,
                    durable_queue, retried, fetched, skipped, persisted_seen >>

\* the orchestrator has returned to process_announcement / print_announcement
DlReturn ==
    /\ variant \in Monitors
    /\ pc = "dl_done"
    /\ dl.result # "Raised"
    /\ IF variant = "Incremental" /\ dl.result = "Failure"
       THEN \* retry_queue = json.load(f); retry_queue.append(failed_item);
            \* open(retry_file, 'w') truncates the file
            /\ pending' = Append(read_retry_queue(retryFile),
                                 RetryEntry(items[idx], dl.filename))
            /\ retryFile' = TruncatedQueue
            /\ pc' = "enq_write"
            /\ idx' = idx
       ELSE \* Complete and Simple drop the return value of the orchestrator
            /\ pc' = "loop"
            /\ idx' = idx + 1
            /\ UNCHANGED << pending, retryFile >>
    /\ dl' = NoCall
    /\ failures' = IF dl.result = "Failure"
                   THEN failures \cup {[url |-> dl.url, filename |-> dl.filename]}
                   ELSE failures
    /\ UNCHANGED << users, reqs, stream, feed_items, xml_content, items_processed, streamed, spc, aborted, check_interval, slept, num_threads, file_size, futures, part_files, outfile, combined, completed, mpc, mret, last_check_time, call, names, fstep, response, rss_content, parsed, fell_back, variant, methods, download_pdfs, cycle, restarts, items, new_count,
                    seen_items, cacheFile, disk, log, failed_log, downloads,
                    durable_queue, retried, fetched, skipped, persisted_seen >>

\* mutant: the run loop has no except Exception, the exception ends the run
AfterException_Fatal == "crashed"

\* where an exception that reaches the run loop leads: except Exception
\* prints it and sleeps 60 seconds inside the while True
AfterException == "cooldown"

\* the orchestrator raised: the exception leaves process_announcement and
\* check_announcements and is caught by the except Exception of the run loop,
\* which sleeps 60 seconds; the rest of the cycle, save_cache included, is lost
CycleAborts ==
    /\ variant \in Monitors
    /\ pc = "dl_done"
    /\ dl.result = "Raised"
    /\ pc' = AfterException
    /\ dl' = NoCall
    /\ items' = << >>
    /\ idx' = 1
    /\ new_count' = 0
    /\ fetched' = "none"
    /\ skipped' = {}
    /\ slept' = time_sleep(pc', check_interval, slept)
    /\ aborted' = aborted \cup {[id |-> ItemId(variant, items[idx]), url |-> dl.url,
                                  filename |-> dl.filename]}
    /\ UNCHANGED << users, reqs, stream, feed_items, xml_content, items_processed, streamed, spc, check_interval, num_threads, file_size, futures, part_files, outfile, combined, completed, mpc, mret, last_check_time, call, names, fstep, response, rss_content, parsed, fell_back, variant, methods, download_pdfs, cycle, restarts, seen_items,
                    cacheFile, retryFile, pending, disk, log, failed_log, downloads,
                    failures, durable_queue, retried, persisted_seen >>

\* time.sleep(60) is over: the while loop goes round
Cooldown ==
    /\ pc = "cooldown"
    /\ pc' = "sleep"
    /\ UNCHANGED << users, reqs, stream, feed_items, xml_content, items_processed, streamed, spc, aborted, check_interval, slept, num_threads, file_size, futures, part_files, outfile, combined, completed, mpc, mret, last_check_time, call, names, fstep, response, rss_content, parsed, fell_back, variant, methods, download_pdfs, cycle, restarts, items, idx,
                    new_count, seen_items, cacheFile, retryFile, pending, disk, dl,
                    log, failed_log, downloads, failures, durable_queue, retried,
                    fetched, skipped, persisted_seen >>

\* json.dump(retry_queue, f) completes
EnqWrite ==
    /\ pc = "enq_write"
    /\ retryFile' = QueueDoc(pending)
    /\ pending' = << >>
    /\ durable_queue' = pending
    /\ pc' = "loop"
    /\ idx' = idx + 1
    /\ UNCHANGED << users, reqs, stream, feed_items, xml_content, items_processed, streamed, spc, aborted, check_interval, slept, num_threads, file_size, futures, part_files, outfile, combined, completed, mpc, mret, last_check_time, call, names, fstep, response, rss_content, parsed, fell_back, variant, methods, download_pdfs, cycle, restarts, items, new_count,
                    seen_items, cacheFile, disk, dl, log, failed_log, downloads, failures, retried, fetched, skipped, persisted_seen >>

\* the for loop is over; the locals latest_items and new_count die with the call
EndLoop ==
    /\ pc = "loop"
    /\ idx > Len(items)
    /\ pc' = AfterLoop(variant, new_count)
    /\ items' = << >>
    /\ idx' = 1
    /\ new_count' = 0
    /\ fetched' = IF AfterLoop(variant, new_count) = "sleep" THEN "none" ELSE fetched
    /\ skipped' = {}
    /\ slept' = time_sleep(pc', check_interval, slept)
    /\ UNCHANGED << users, reqs, stream, feed_items, xml_content, items_processed, streamed, spc, aborted, check_interval, num_threads, file_size, futures, part_files, outfile, combined, completed, mpc, mret, last_check_time, call, names, fstep, response, rss_content, parsed, fell_back, variant, methods, download_pdfs, cycle, restarts, seen_items,
                    cacheFile, retryFile, pending, disk, dl, log, failed_log, downloads, failures,
                    durable_queue, retried, persisted_seen >>

\* save_cache: open(self.cache_file, 'w') truncates the file
SaveOpen ==
    /\ pc = "save"
    /\ cacheFile' = TruncatedCache
    /\ pc' = "save_write"
    /\ UNCHANGED << users, reqs, stream, feed_items, xml_content, items_processed, streamed, spc, aborted, check_interval, slept, num_threads, file_size, futures, part_files, outfile, combined, completed, mpc, mret, last_check_time, call, names, fstep, response, rss_content, parsed, fell_back, variant, methods, download_pdfs, cycle, restarts, items, idx,
                    new_count, seen_items, retryFile, pending, disk, dl, log,
                    failed_log, downloads, failures,
                    durable_queue, retried, fetched, skipped, persisted_seen >>

\* save_cache: json.dump(cache, f) completes
SaveWrite ==
    /\ pc = "save_write"
    /\ cacheFile' = CacheDoc(seen_items, cycle)
    /\ pc' = "sleep"
    /\ fetched' = "none"
    /\ persisted_seen' = seen_items
    /\ slept' = time_sleep(pc', check_interval, slept)
    /\ UNCHANGED << users, reqs, stream, feed_items, xml_content, items_processed, streamed, spc, aborted, check_interval, num_threads, file_size, futures, part_files, outfile, combined, completed, mpc, mret, last_check_time, call, names, fstep, response, rss_content, parsed, fell_back, variant, methods, download_pdfs, cycle, restarts, items, idx,
                    new_count, seen_items, retryFile, pending, disk, dl, log,
                    failed_log, downloads, failures,
                    durable_queue, retried, skipped >>

\* IncrementalNSEMonitor defines no method download_pdf
HasDownloadPdf == FALSE

\* the outcome of one retry_failed_downloads call: the file it leaves, the
\* retry_queue it loaded, the entries it retried, whether the pass began
ReplayOutcome(file, queue, done, ran) ==
    [file |-> file, queue |-> queue, retried |-> done, ran |-> ran]

\* remaining_failures: the retried entries whose download returned False
RECURSIVE remaining_failures(_)
remaining_failures(done) ==
    IF done = << >> THEN << >>
    ELSE (IF Head(done).success THEN << >> ELSE << Head(done).entry >>)
         \o remaining_failures(Tail(done))

\* retry_failed_downloads, run on demand between cycles: it returns early on
\* a missing or empty queue; json.load of an unparseable file raises into the
\* except; otherwise the first self.download_pdf(...) raises AttributeError,
\* which the except Exception around the pass swallows before the file is
\* rewritten
retry_failed_downloads(file) ==
    IF file.kind = "absent" THEN { ReplayOutcome(file, << >>, << >>, FALSE) }
    ELSE IF file.kind = "partial" THEN { ReplayOutcome(file, << >>, << >>, FALSE) }
    ELSE IF file.queue = << >> THEN { ReplayOutcome(file, << >>, << >>, FALSE) }
    ELSE IF ~HasDownloadPdf THEN { ReplayOutcome(file, file.queue, << >>, TRUE) }
    ELSE { ReplayOutcome(QueueDoc(remaining_failures(done)), file.queue, done, TRUE) :
             done \in { [i \in 1..Len(file.queue) |->
                           [entry |-> file.queue[i], success |-> b[i]]] :
                        b \in [1..Len(file.queue) -> BOOLEAN] } }

\* one call of retry_failed_downloads
Replay ==
    /\ pc = "sleep"
    /\ variant = "Incremental"
    /\ \E pass \in retry_failed_downloads(retryFile) :
         /\ retryFile' = pass.file
         /\ pending' = pass.queue
         /\ retried' = pass.retried
         /\ pc' = IF pass.ran THEN "replayed" ELSE "sleep"
    /\ UNCHANGED << users, reqs, stream, feed_items, xml_content, items_processed, streamed, spc, aborted, check_interval, slept, num_threads, file_size, futures, part_files, outfile, combined, completed, mpc, mret, last_check_time, call, names, fstep, response, rss_content, parsed, fell_back, variant, methods, download_pdfs, cycle, restarts, items, idx,
                    new_count, seen_items, cacheFile, disk, dl, log, failed_log,
                    downloads, failures, durable_queue, fetched, skipped,
                    persisted_seen >>

\* retry_failed_downloads has returned; its locals die with the call
ReplayReturn ==
    /\ pc = "replayed"
    /\ pc' = "sleep"
    /\ pending' = << >>
    /\ retried' = << >>
    /\ UNCHANGED << users, reqs, stream, feed_items, xml_content, items_processed, streamed, spc, aborted, check_interval, slept, num_threads, file_size, futures, part_files, outfile, combined, completed, mpc, mret, last_check_time, call, names, fstep, response, rss_content, parsed, fell_back, variant, methods, download_pdfs, cycle, restarts, items, idx,
                    new_count, seen_items, cacheFile, retryFile, disk, dl, log,
                    failed_log, downloads, failures, durable_queue, fetched, skipped,
                    persisted_seen >>

\* the process is killed at any point and the monitor is started again:
\* __init__ runs load_cache on what is on disk; a transfer that was under way
\* may leave the bytes it had written
Restart ==
    /\ restarts < MaxRestarts
    /\ restarts' = restarts + 1
    /\ pc' = "sleep"
    /\ seen_items' = load_cache(cacheFile)
    /\ items' = << >>
    /\ idx' = 1
    /\ new_count' = 0
    /\ pending' = << >>
    /\ dl' = NoCall
    /\ downloads' = << >>
    /\ failures' = {}
    /\ retried' = << >>
    /\ disk' \in IF pc \in {"requests", "curl", "wget", "threaded"}
                 THEN { disk, [disk EXCEPT ![dl.filename] = Partial(dl.url)] }
                 ELSE { disk }
    /\ fetched' = "none"
    /\ skipped' = {}
    /\ persisted_seen' = load_cache(cacheFile)
    /\ last_check_time' = load_last_check_time(variant, cacheFile)
    /\ slept' = 0
    /\ UNCHANGED << users, reqs, stream, feed_items, xml_content, items_processed, streamed, spc, aborted, check_interval, num_threads, file_size, futures, part_files, outfile, combined, completed, mpc, mret, call, names, fstep, response, rss_content, parsed, fell_back, variant, methods, download_pdfs, cycle, cacheFile, retryFile, log,
                    failed_log,
                    durable_queue >>

\* Python's None where a payload is expected: a value no payload equals
None == << [k |-> "None", tag |-> "", text |-> << >>] >>

\* requests the server handles at a time (waitress serves from a thread pool)
MaxRequests == 2
Threads == 1..MaxRequests

\* a worker thread without a request
Idle == [at |-> "idle", username |-> "", password |-> "", status |-> 0, error |-> ""]

\* no worker pool, no part file: the part indexes of a call are 0..num_threads-1
NoFutures == [i \in {} |-> 0]

\* a file that does not exist; the bytes of one that does are a sequence
NoFile == [exists |-> FALSE, bytes |-> << >>]

\* create_safe_filename not called yet
NoArgs == [company |-> << >>, pub_date |-> << >>, file_url |-> << >>]

\* no fetch made yet
NoResponse == [exc |-> "none", version_rc |-> 0, returncode |-> 0, status_code |-> 0,
               text |-> << >>]

\* the state after __init__ of a monitor built with check_interval=interval
Constructed(interval) ==
    /\ variant \in Monitors \cup {"Downloader"}
    \* smart_download(url, filename, methods=None) starts from its default list
    /\ methods = IF variant = "Downloader"
                 THEN << "requests", "curl", "wget", "threaded" >>
                 ELSE MethodList(variant)
    /\ download_pdfs \in IF variant = "Downloader" THEN {TRUE} ELSE BOOLEAN
    /\ pc = "sleep"
    /\ cycle = 0
    /\ restarts = 0
    /\ items = << >>
    /\ idx = 1
    /\ new_count = 0
    /\ seen_items = {}
    /\ cacheFile = NoCache
    /\ retryFile = NoQueue
    /\ pending = << >>
    /\ disk = [f \in Filenames |-> Absent]
    /\ dl = NoCall
    /\ log = << >>
    /\ failed_log = << >>
    /\ downloads = << >>
    /\ failures = {}
    /\ durable_queue = << >>
    /\ retried = << >>
    /\ fetched = "none"
    /\ skipped = {}
    /\ persisted_seen = {}
    /\ fstep = "idle"
    /\ response = NoResponse
    /\ rss_content = None
    /\ parsed = << >>
    /\ fell_back = FALSE
    /\ call = NoArgs
    /\ names = << >>
    /\ last_check_time = NoTime
    /\ users = << >>
    /\ reqs = [t \in Threads |-> Idle]
    /\ num_threads = 0
    /\ file_size = 0
    /\ futures = NoFutures
    /\ part_files = NoFutures
    /\ outfile = NoFile
    /\ combined = 0
    /\ completed = << >>
    /\ mpc = "idle"
    /\ mret = "none"
    /\ check_interval = interval
    /\ slept = 0
    /\ aborted = {}
    /\ stream = << >>
    /\ feed_items = << >>
    /\ xml_content = << >>
    /\ items_processed = 0
    /\ streamed = << >>
    /\ spc = "idle"

Init == Constructed(DefaultInterval)

Next ==
    \/ FetchFails
    \/ FetchFeed
    \/ ProcessItem
    \/ DlEntry
    \/ DlRequests
    \/ DlCurl
    \/ DlWget
    \/ DlThreaded
    \/ SmartDownloadCall
    \/ SmartDownloadReturn
    \/ DlReturn
    \/ CycleAborts
    \/ Cooldown
    \/ EnqWrite
    \/ EndLoop
    \/ SaveOpen
    \/ SaveWrite
    \/ Replay
    \/ ReplayReturn
    \/ Restart

Spec == Init /\ [][Next]_vars

-----------------------------------------------------------------------------
(* One run of a monitor's loop (run_continuous, run_incremental_monitoring,
   run_monitoring) from its start to the stop signal *)

\* KeyboardInterrupt reaches the run loop: the incremental monitor saves its
\* cache, then the loop breaks.  No strategy catches KeyboardInterrupt (they
\* catch Exception), so one that is writing the target leaves what it wrote
Stop ==
    /\ pc # "stopped"
    /\ pc' = "stopped"
    /\ disk' \in IF pc \in {"requests", "curl", "wget"}
                 THEN { disk, [disk EXCEPT ![dl.filename] = Partial(dl.url)] }
                 ELSE { disk }
    /\ IF variant = "Incremental"
       THEN /\ cacheFile' = CacheDoc(seen_items, cycle)
            /\ persisted_seen' = seen_items
       ELSE UNCHANGED << cacheFile, persisted_seen >>
    /\ UNCHANGED << users, reqs, stream, feed_items, xml_content, items_processed, streamed, spc, aborted, check_interval, slept, num_threads, file_size, futures, part_files, outfile, combined, completed, mpc, mret, last_check_time, call, names, fstep, response, rss_content, parsed, fell_back, variant, methods, download_pdfs, cycle, restarts, items, idx,
                    new_count, seen_items, retryFile, pending, dl, log,
                    failed_log, downloads, failures, durable_queue, retried,
                    fetched, skipped >>

\* the steps the running loop takes by itself
PollerStep ==
    \/ FetchFails
    \/ FetchFeed
    \/ ProcessItem
    \/ DlEntry
    \/ DlRequests
    \/ DlCurl
    \/ DlWget
    \/ DlReturn
    \/ CycleAborts
    \/ Cooldown
    \/ EnqWrite
    \/ EndLoop
    \/ SaveOpen
    \/ SaveWrite

RunInit == Init /\ variant \in Monitors

RunNext == PollerStep \/ Stop

\* the interpreter keeps executing the loop as long as it can take a step
RunSpec == RunInit /\ [][RunNext]_vars /\ WF_vars(PollerStep)

-----------------------------------------------------------------------------
(* Properties *)

InOrchestrator == pc \in {"dl_call", "requests", "curl", "wget", "threaded", "dl_done"}
Returned == pc = "dl_done"
\* the monitors whose orchestrator falls back from requests to curl to wget
FallbackMonitors == {"Complete", "Incremental"}
FallbackOrder == << "requests", "curl", "wget" >>
IsPrefix(p, q) == Len(p) <= Len(q) /\ p = SubSeq(q, 1, Len(p))
Last(q) == q[Len(q)]
InQueue(url, filename, q) ==
    \E i \in 1..Len(q) : q[i].url = url /\ q[i].filename = filename

\* C1: within one monitor process the orchestrator is called at most once per
\* record id, over all cycles and whatever the feed re-lists: the records it
\* was called for have pairwise different ids, each of them is in seen_items,
\* and a call is only ever started for the item the loop stands on.
C1_OneDownloadPerRecordID ==
    /\ \A i, j \in 1..Len(downloads) :
         i # j => /\ ItemId(variant, downloads[i]) # ItemId(variant, downloads[j])
                  /\ RecordID(downloads[i]) # RecordID(downloads[j])
    /\ \A i \in 1..Len(downloads) : ItemId(variant, downloads[i]) \in seen_items
    /\ pc = "dl_call" => Last(downloads) = items[idx]

\* C1 witness: a record listed twice in one cycle has been passed twice by the
\* loop and was downloaded once.
C1_Witness ==
    /\ pc = "loop"
    /\ Len(items) = 2
    /\ items[1] = items[2]
    /\ idx = 3
    /\ downloads = << items[1] >>

\* C2 (as claimed): whenever the orchestrator returns Success a completed file
\* of non-zero size is at the target path.
C2_SuccessMeansCompleteFile ==
    (variant \in FallbackMonitors /\ Returned /\ dl.result = "Success")
        => disk[dl.filename].st = "full"

\* C3 (as claimed): when a strategy failed after writing bytes to the target,
\* the target is missing or empty at the moment the next strategy starts.
C3_CleanBeforeNextStrategy ==
    (variant \in FallbackMonitors /\ pc \in {"curl", "wget"} /\ dl.wrote)
        => ~NonEmpty(disk[dl.filename])

\* C4 (as claimed): when the orchestrator returns Failure after exhausting all
\* strategies, no file remains at the target path (so that no later call can
\* take the already-exists short-circuit).
C4_NoFileAfterFailure ==
    (variant \in FallbackMonitors /\ Returned /\ dl.result = "Failure"
        /\ dl.invoked = methods)
        => ~Exists(disk[dl.filename])

InvocationOrder ==
    (variant # "Simple" /\ InOrchestrator) =>
        /\ IsPrefix(FallbackOrder, methods)
        /\ IsPrefix(dl.invoked, methods)
        /\ \A k \in 1..Len(methods) : pc = methods[k] => Len(dl.invoked) = k - 1

\* when a call returned Success through a strategy, the last line of the
\* download log names the file and that strategy
LogNamesStrategy ==
    (variant # "Simple" /\ Returned /\ dl.result = "Success" /\ dl.invoked # << >>)
        => /\ log # << >>
           /\ Last(log).filename = dl.filename
           /\ Last(log).strategy = Last(dl.invoked)

\* C6 (as claimed): for the ordered strategy list (requests, curl, wget, then
\* any further configured one), the strategies before the first that succeeds
\* were each invoked once and in order, none after it is invoked, and the
\* successful outcome recorded in the log names it.
C6_FallbackOrder == InvocationOrder /\ LogNamesStrategy

C8_AtomicSaves ==
    [][restarts' = restarts + 1
         => /\ cacheFile.kind # "partial"
            /\ retryFile.kind # "partial"
            /\ read_retry_queue(retryFile') = durable_queue]_vars

\* C9 (as claimed): at the end of a cycle every download of the cycle that
\* returned Failure for a downloadable link has its entry in the persisted
\* retry queue.
C9_FailureIsQueued ==
    (variant \in FallbackMonitors /\ pc = "sleep") =>
        \A f \in failures :
            Supported(variant, f.url) => InQueue(f.url, f.filename, read_retry_queue(retryFile))

\* C10 (as claimed): when an enqueue completes, the persisted queue is the
\* previously persisted queue followed by the new entry.
C10_EnqueueAppends ==
    [][(pc = "enq_write" /\ pc' = "loop")
         => /\ retryFile'.kind = "ok"
            /\ Len(retryFile'.queue) = Len(durable_queue) + 1
            /\ SubSeq(retryFile'.queue, 1, Len(durable_queue)) = durable_queue]_vars

\* C11 (as claimed): after a replay pass over a persisted queue Q every entry
\* of Q has been retried once through the orchestrator, in order, and the
\* persisted queue is exactly the entries of Q whose retry failed, in order.
C11_ReplayRetriesEveryEntry ==
    pc = "replayed" =>
        /\ Len(retried) = Len(pending)
        /\ \A i \in 1..Len(pending) : retried[i].entry = pending[i]
        /\ retryFile = QueueDoc(remaining_failures(retried))

\* the download strategies' positions
InStrategy == pc \in {"requests", "curl", "wget", "threaded"}

\* C12 (as claimed): in a cycle whose fetch fails or whose payload does not
\* parse, no step changes the seen set or the persisted cache file and no
\* download is started, in every monitor.
C12_FailedFetchLeavesCache ==
    [][(/\ variant \in Monitors
        /\ restarts' = restarts
        /\ \/ fetched = "failed"
           \/ cycle' = cycle + 1 /\ fetched' # "ok")
         => /\ seen_items' = seen_items
            /\ cacheFile' = cacheFile
            /\ pc' \notin {"loop", "dl_call", "requests", "curl", "wget"}]_vars

\* C13 (as claimed): a cycle whose feed was fetched and parsed ends only by
\* the completion of save_cache, also when it found no new record.
C13_SuccessfulCycleSaves ==
    [][(/\ variant \in Monitors
        /\ restarts' = restarts
        /\ fetched = "ok"
        /\ pc' = "sleep")
         => /\ pc = "save_write"
            /\ cacheFile' = CacheDoc(seen_items, cycle)]_vars

\* C14: only the first max_items records of the feed are examined: the loop
\* runs over at most max_items items, a new record listed only beyond them
\* stays out of the seen set for the whole cycle and is not downloaded, and a
\* download strategy runs only for the item the loop stands on and only for
\* a link ending in .pdf or .xml.
C14_OnlyFirstNExamined ==
    variant \in Monitors =>
        /\ Len(items) <= max_items
        /\ skipped \cap seen_items = {}
        /\ \A i \in 1..Len(downloads) : ItemId(variant, downloads[i]) \notin skipped
        /\ InStrategy =>
             /\ idx <= max_items
             /\ dl.url = items[idx].link
             /\ EndsWith(dl.url, PDF) \/ EndsWith(dl.url, XML)

\* C14 witness: of a feed [A new, B seen, C new] with max_items = 2 the loop
\* has passed A and B: A was new and was downloaded, B had been downloaded by
\* an earlier cycle, C is left out.
C14_Witness ==
    /\ pc = "loop"
    /\ idx = 3
    /\ Len(items) = 2
    /\ new_count = 1
    /\ skipped # {}
    /\ downloads = << items[2], items[1] >>

\* C16: while a monitor process runs, no step removes an id from the seen
\* set, the list it last loaded or saved is always within the seen set, and
\* every list save_cache writes holds all of that list.
C16_SeenOnlyGrows ==
    [][(variant \in Monitors /\ restarts' = restarts)
         => /\ seen_items \subseteq seen_items'
            /\ persisted_seen \subseteq seen_items
            /\ (cacheFile' # cacheFile /\ cacheFile'.kind = "ok")
                 => /\ cacheFile'.seen_items = seen_items
                    /\ persisted_seen \subseteq cacheFile'.seen_items]_vars

\* C16 witness: the second cycle of an incremental monitor that was never
\* restarted has saved its grown seen set over the save of the first cycle.
C16_Witness ==
    /\ variant = "Incremental"
    /\ pc = "sleep"
    /\ cycle = 2
    /\ restarts = 0
    /\ cacheFile.kind = "ok"
    /\ cacheFile.stamp = 2
    /\ Cardinality(cacheFile.seen_items) >= 2

C17_KeyFromThreeFields ==
    variant \in Monitors =>
        /\ \A i, j \in 1..Len(items) :
             RecordID(items[i]) # RecordID(items[j])
                => ItemId(variant, items[i]) # ItemId(variant, items[j])
        /\ variant = "Incremental" =>
             \A i \in 1..Len(items) :
                streaming_item_id(items[i]) = generate_item_id(items[i])

-----------------------------------------------------------------------------
(* One fetch of the feed: the payload is a sequence of lexical tokens (tags,
   whole child elements, whitespace), a string search is a search for a token *)

Open(tag) == [k |-> "open", tag |-> tag, text |-> << >>]
Close(tag) == [k |-> "close", tag |-> tag, text |-> << >>]
\* <tag>text</tag>
Leaf(tag, text) == [k |-> "leaf", tag |-> tag, text |-> text]
\* <?xml version="1.0" encoding="..."?>
Decl == [k |-> "decl", tag |-> "xml", text |-> << >>]
\* a run of whitespace
Space == [k |-> "space", tag |-> "", text |-> << " " >>]

\* the children of the item elements the source serves: a full record with a
\* field outside the whitelist, one without a title, one with padded text and
\* one whose title is blank
ItemElements == {
    << Leaf("title", << "A" >>), Leaf("link", << "a", ".", "p", "d", "f" >>),
       Leaf("description", << "d" >>), Leaf("pubDate", << "1" >>), Leaf("guid", << "g" >>) >>,
    << Leaf("link", << "c", ".", "h", "t", "m" >>), Leaf("pubDate", << "1" >>) >>,
    << Leaf("title", << " ", "B", " " >>), Leaf("pubDate", << "2" >>) >>,
    << Leaf("title", << " " >>), Leaf("link", << "b", ".", "x", "m", "l" >>) >> }

RECURSIVE RenderItems(_)
RenderItems(els) ==
    IF els = << >> THEN << >>
    ELSE << Open("item") >> \o Head(els) \o << Close("item") >> \o RenderItems(Tail(els))

\* the RSS document listing the item elements els
Render(els) ==
    << Open("rss"), Open("channel") >> \o RenderItems(els)
        \o << Close("channel"), Close("rss") >>

\* a well-formed page that is no feed
ErrorPage == << Open("html"), Leaf("title", << "E" >>), Close("html") >>

Documents ==
    { pre \o Render(els) : pre \in { << >>, << Decl >> },
                           els \in SeqsUpTo(ItemElements, MaxDocItems) }
        \cup { ErrorPage }

\* what arrives of a document: all of it, a prefix of it (a transfer cut short,
\* a byte range), or the document with one tag or its declaration lost
Truncations(d) == { SubSeq(d, 1, k) : k \in 0..Len(d) }
Droppings(d) ==
    { SubSeq(d, 1, k - 1) \o SubSeq(d, k + 1, Len(d)) :
        k \in { i \in 1..Len(d) : d[i].k # "leaf" } }
Payloads == UNION { Truncations(d) \cup Droppings(d) : d \in Documents }

\* needle in haystack, for a one-token needle
Contains(content, token) == \E i \in 1..Len(content) : content[i] = token

\* subprocess.run's outcome: the exception it raised or its returncode and stdout;
\* version_rc is the returncode of the monitor's own `curl --version` probe
CurlResults(v) ==
    { [exc |-> e, version_rc |-> 0, returncode |-> 0, status_code |-> 0, text |-> << >>] :
        e \in {"TimeoutExpired", "FileNotFoundError"} }
    \cup (IF v = "Simple"
          THEN { [exc |-> "none", version_rc |-> 1, returncode |-> 0, status_code |-> 0,
                  text |-> << >>] }
          ELSE {})
    \cup { [exc |-> "none", version_rc |-> 0, returncode |-> rc, status_code |-> 0,
            text |-> pad \o p \o pad] :
             rc \in {0, 1}, p \in Payloads, pad \in { << >>, << Space >> } }

\* mutant: the output is returned without the check of its markers
fetch_rss_with_curl_Unvalidated(v, r) ==
    IF r.exc # "none" THEN None
    ELSE IF v = "Simple" /\ r.version_rc # 0 THEN None
    ELSE IF r.returncode = 0 /\ Strip(r.text, {Space}) # << >>
         THEN Strip(r.text, {Space})
         ELSE None

\* CompleteNSEMonitor.fetch_rss_with_curl, SimpleNSECurlMonitor.fetch_rss_with_curl
fetch_rss_with_curl(v, r) ==
    IF r.exc # "none" THEN None
    ELSE IF v = "Simple" /\ r.version_rc # 0 THEN None
    ELSE IF r.returncode = 0 /\ Strip(r.text, {Space}) # << >>
         THEN LET content == Strip(r.text, {Space})
              IN  IF Contains(content, Open("rss")) /\ Contains(content, Close("rss"))
                  THEN content
                  ELSE None
         ELSE None

\* re.sub(r'<\?xml[^>]*\?>', '', xml_content)
RemoveDecl(xml_text) == SelectSeq(xml_text, LAMBDA t : t.k # "decl")

\* ET.fromstring raises no ParseError: one root element, tags closed in order,
\* nothing but whitespace outside the root
RECURSIVE WellFormed(_, _, _)
WellFormed(toks, stack, closed) ==
    IF toks = << >> THEN stack = << >> /\ closed
    ELSE LET t == Head(toks)
         IN  CASE t.k = "space" -> WellFormed(Tail(toks), stack, closed)
               [] t.k = "leaf" ->
                    IF stack = << >>
                    THEN ~closed /\ WellFormed(Tail(toks), stack, TRUE)
                    ELSE WellFormed(Tail(toks), stack, closed)
               [] t.k = "open" ->
                    IF stack = << >>
                    THEN ~closed /\ WellFormed(Tail(toks), << t.tag >>, FALSE)
                    ELSE WellFormed(Tail(toks), << t.tag >> \o stack, closed)
               [] t.k = "close" ->
                    /\ stack # << >>
                    /\ Head(stack) = t.tag
                    /\ WellFormed(Tail(toks), Tail(stack), Len(stack) = 1)
               [] OTHER -> FALSE

\* root.findall('.//item'): the item elements below the root in document
\* order, each as the sequence of its children; cur is the item being read
RECURSIVE findall_items(_, _, _)
findall_items(toks, depth, cur) ==
    IF toks = << >> THEN << >>
    ELSE LET t == Head(toks)
         IN  CASE t = Open("item") /\ depth >= 1 /\ ~cur.open ->
                    findall_items(Tail(toks), depth + 1, [open |-> TRUE, children |-> << >>])
               [] t = Close("item") /\ cur.open ->
                    << cur.children >>
                        \o findall_items(Tail(toks), depth - 1,
                                         [open |-> FALSE, children |-> << >>])
               [] t.k = "open" /\ ~(t = Open("item") /\ depth >= 1 /\ ~cur.open) ->
                    findall_items(Tail(toks), depth + 1, cur)
               [] t.k = "close" /\ ~(t = Close("item") /\ cur.open) ->
                    findall_items(Tail(toks), depth - 1, cur)
               [] t.k = "leaf" /\ cur.open ->
                    findall_items(Tail(toks), depth,
                                  [cur EXCEPT !.children = Append(@, t)])
               [] OTHER -> findall_items(Tail(toks), depth, cur)

\* the child tags parse_rss_manually keeps
Whitelist == {"title", "link", "description", "pubDate"}

\* d[key] = value on a dict
Put(d, key, value) == [x \in DOMAIN d \cup {key} |-> IF x = key THEN value ELSE d[x]]

\* the loop over an item's children: item_data[child.tag] = (child.text or '').strip()
RECURSIVE item_data(_, _)
item_data(children, d) ==
    IF children = << >> THEN d
    ELSE item_data(Tail(children),
                   IF Head(children).tag \in Whitelist
                   THEN Put(d, Head(children).tag, Strip(Head(children).text, Whitespace))
                   ELSE d)

\* mutant: an item is kept whatever its title
HasTitle_Always(d) == TRUE

\* item_data.get('title')
HasTitle(d) == "title" \in DOMAIN d /\ d["title"] # << >>

\* CompleteNSEMonitor.parse_rss_manually, SimpleNSECurlMonitor.parse_rss_manually
parse_rss_manually(xml_text) ==
    LET content == RemoveDecl(xml_text)
    IN  IF ~WellFormed(content, << >>, FALSE) THEN << >>
        ELSE LET found == findall_items(content, 0, [open |-> FALSE, children |-> << >>])
                 dicts == [i \in 1..Len(found) |-> item_data(found[i], << >>)]
             IN  SelectSeq(dicts, HasTitle)

\* subprocess.run(curl_cmd, ...) inside fetch_rss_with_curl
CurlRun ==
    /\ variant \in {"Complete", "Simple"}
    /\ fstep = "idle"
    /\ response' \in CurlResults(variant)
    /\ fstep' = "ran"
    /\ UNCHANGED << users, reqs, stream, feed_items, xml_content, items_processed, streamed, spc, aborted, check_interval, slept, num_threads, file_size, futures, part_files, outfile, combined, completed, mpc, mret, last_check_time, call, names, rss_content, parsed, fell_back, variant, methods, download_pdfs, pc,
                    cycle, restarts, items, idx, new_count, seen_items, cacheFile,
                    retryFile, pending, disk, dl, log, failed_log, downloads, failures,
                    durable_queue, retried, fetched, skipped, persisted_seen >>

\* rss_content = self.fetch_rss_with_curl()
FetchReturn ==
    /\ fstep = "ran"
    /\ rss_content' = fetch_rss_with_curl(variant, response)
    /\ fstep' = "fetched"
    /\ UNCHANGED << users, reqs, stream, feed_items, xml_content, items_processed, streamed, spc, aborted, check_interval, slept, num_threads, file_size, futures, part_files, outfile, combined, completed, mpc, mret, last_check_time, call, names, response, parsed, fell_back, variant, methods, download_pdfs, pc,
                    cycle, restarts, items, idx, new_count, seen_items, cacheFile,
                    retryFile, pending, disk, dl, log, failed_log, downloads, failures,
                    durable_queue, retried, fetched, skipped, persisted_seen >>

\* if not rss_content: return; items = self.parse_rss_manually(rss_content)
ParseFeed ==
    /\ fstep = "fetched"
    /\ rss_content # None
    /\ parsed' = parse_rss_manually(rss_content)
    /\ fstep' = "parsed"
    /\ UNCHANGED << users, reqs, stream, feed_items, xml_content, items_processed, streamed, spc, aborted, check_interval, slept, num_threads, file_size, futures, part_files, outfile, combined, completed, mpc, mret, last_check_time, call, names, response, rss_content, fell_back, variant, methods, download_pdfs, pc,
                    cycle, restarts, items, idx, new_count, seen_items, cacheFile,
                    retryFile, pending, disk, dl, log, failed_log, downloads, failures,
                    durable_queue, retried, fetched, skipped, persisted_seen >>

\* the HTTP response to the range request, or the exception requests.get raised
HttpResponses ==
    { [exc |-> "RequestException", version_rc |-> 0, returncode |-> 0, status_code |-> 0,
       text |-> << >>] }
    \cup { [exc |-> "none", version_rc |-> 0, returncode |-> 0, status_code |-> sc,
            text |-> p] : sc \in {200, 206}, p \in Payloads }

\* partial_xml.rfind('</item>'): the place of the last </item>, 0 for none
RECURSIVE rfind(_, _)
rfind(content, token) ==
    IF content = << >> THEN 0
    ELSE IF content[Len(content)] = token THEN Len(content)
    ELSE rfind(SubSeq(content, 1, Len(content) - 1), token)

\* the repair of a fragment without '</rss>': cut behind the last complete
\* item and append '\n</channel>\n</rss>'
patched_xml(partial_xml) ==
    IF ~Contains(partial_xml, Close("rss")) /\ rfind(partial_xml, Close("item")) # 0
    THEN SubSeq(partial_xml, 1, rfind(partial_xml, Close("item")))
            \o << Space, Close("channel"), Space, Close("rss") >>
    ELSE partial_xml

\* entry.get(key, '')
Get(d, key) == IF key \in DOMAIN d THEN d[key] ELSE << >>

\* a feedparser entry, as far as generate_item_id reads it
Entry(children) ==
    LET d == item_data(children, << >>)
    IN  Rec(Get(d, "title"), Get(d, "pubDate"), Get(d, "link"))

\* the children of an item the payload leaves open at its end
open_item(content) ==
    LET o == rfind(content, Open("item"))
    IN  IF o > rfind(content, Close("item"))
        THEN SelectSeq(SubSeq(content, o + 1, Len(content)), LAMBDA t : t.k = "leaf")
        ELSE << >>

\* feedparser.parse(partial_xml).entries: feedparser raises on no payload; it
\* lists the complete items, and its loose parser may or may not list an item
\* the payload leaves open
feedparser_entries(content) ==
    LET found == findall_items(RemoveDecl(content), 0, [open |-> FALSE, children |-> << >>])
        whole == [i \in 1..Len(found) |-> Entry(found[i])]
    IN  { whole } \cup (IF open_item(content) # << >>
                        THEN { Append(whole, Entry(open_item(content))) }
                        ELSE {})

\* response = requests.get(self.rss_url, headers={'Range': 'bytes=0-51200'})
RangeRequest ==
    /\ variant = "Incremental"
    /\ fstep = "idle"
    /\ response' \in HttpResponses
    /\ fstep' = "ranged"
    /\ UNCHANGED << users, reqs, stream, feed_items, xml_content, items_processed, streamed, spc, aborted, check_interval, slept, num_threads, file_size, futures, part_files, outfile, combined, completed, mpc, mret, last_check_time, call, names, rss_content, parsed, fell_back, variant, methods, download_pdfs, pc,
                    cycle, restarts, items, idx, new_count, seen_items, cacheFile,
                    retryFile, pending, disk, dl, log, failed_log, downloads, failures,
                    durable_queue, retried, fetched, skipped, persisted_seen >>

\* IncrementalNSEMonitor.method4_http_range_requests from the response on
RangeProcess ==
    /\ fstep = "ranged"
    /\ IF response.exc # "none"
       THEN fstep' = "done" /\ UNCHANGED << seen_items, fell_back >>
       ELSE IF response.status_code = 206
       THEN /\ \E entries \in feedparser_entries(patched_xml(response.text)) :
                 seen_items' = seen_items
                    \cup { generate_item_id(entries[i]) : i \in 1..Len(entries) }
            /\ fstep' = "done"
            /\ UNCHANGED fell_back
       ELSE /\ fell_back' = TRUE
            /\ fstep' = "full"
            /\ UNCHANGED seen_items
    /\ UNCHANGED << users, reqs, stream, feed_items, xml_content, items_processed, streamed, spc, aborted, check_interval, slept, num_threads, file_size, futures, part_files, outfile, combined, completed, mpc, mret, last_check_time, call, names, response, rss_content, parsed, variant, methods, download_pdfs, pc,
                    cycle, restarts, items, idx, new_count, cacheFile,
                    retryFile, pending, disk, dl, log, failed_log, downloads, failures,
                    durable_queue, retried, fetched, skipped, persisted_seen >>

\* IncrementalNSEMonitor.method1_process_only_latest_items, reached from
\* method4_http_range_requests, with download_pdfs off
FullFetch ==
    /\ fstep = "full"
    /\ ~download_pdfs
    /\ \/ UNCHANGED seen_items
       \/ \E feed \in Feeds :
            seen_items' = seen_items
                \cup { generate_item_id(Latest(feed, max_items)[i]) :
                         i \in 1..Len(Latest(feed, max_items)) }
    /\ fstep' = "done"
    /\ UNCHANGED << users, reqs, stream, feed_items, xml_content, items_processed, streamed, spc, aborted, check_interval, slept, num_threads, file_size, futures, part_files, outfile, combined, completed, mpc, mret, last_check_time, call, names, response, rss_content, parsed, fell_back, variant, methods,
                    download_pdfs, pc, cycle, restarts, items, idx, new_count, cacheFile,
                    retryFile, pending, disk, dl, log, failed_log, downloads, failures,
                    durable_queue, retried, fetched, skipped, persisted_seen >>

\* a monitor about to fetch the feed; download_pdfs at the incremental
\* monitor's default
FeedInit == Init /\ variant \in Monitors /\ ~download_pdfs

FeedNext ==
    \/ CurlRun
    \/ FetchReturn
    \/ ParseFeed
    \/ RangeRequest
    \/ RangeProcess
    \/ FullFetch

FeedSpec == FeedInit /\ [][FeedNext]_vars

\* C18 (as claimed): after a range response whose payload has no closing
\* </rss>, method4_http_range_requests has fallen back to the full fetch and
\* has marked no record of the fragment seen.
C18_RangeFallback ==
    ( /\ variant = "Incremental"
      /\ fstep \in {"full", "done"}
      /\ response.exc = "none"
      /\ response.status_code = 206
      /\ ~Contains(response.text, Close("rss")) )
        => fell_back /\ (fstep = "full" => seen_items = {})

\* C19: fetch_rss_with_curl returns the stripped output when the tool ran,
\* exited with 0 and printed a non-blank output holding '<rss' and '</rss>',
\* and None in every other case.
C19_FetchValidated ==
    (variant \in {"Complete", "Simple"} /\ fstep \in {"fetched", "parsed"}) =>
        LET accepted ==
                /\ response.exc = "none"
                /\ response.version_rc = 0
                /\ response.returncode = 0
                /\ \E i \in 1..Len(response.text) : response.text[i] # Space
                /\ \E i \in 1..Len(response.text) : response.text[i] = Open("rss")
                /\ \E i \in 1..Len(response.text) : response.text[i] = Close("rss")
        IN  /\ accepted => rss_content = Strip(response.text, {Space})
            /\ ~accepted => rss_content = None
            /\ rss_content # << >>

C19_Witness ==
    /\ fstep = "fetched"
    /\ response.returncode = 0
    /\ response.exc = "none"
    /\ response.text # << >>
    /\ Contains(response.text, Open("rss"))
    /\ ~Contains(response.text, Close("rss"))
    /\ rss_content = None

\* the item elements of a well-formed document that have a title of more than
\* whitespace, in document order, cut down to the whitelisted fields
RECURSIVE TitledItems(_)
TitledItems(els) ==
    IF els = << >> THEN << >>
    ELSE LET e == Head(els)
             kept == { i \in 1..Len(e) : e[i].tag \in Whitelist }
             titled == \E i \in kept : e[i].tag = "title" /\ Strip(e[i].text, Whitespace) # << >>
             fields == [x \in { e[i].tag : i \in kept } |->
                          Strip(e[CHOOSE i \in kept : e[i].tag = x].text, Whitespace)]
         IN  (IF titled THEN << fields >> ELSE << >>) \o TitledItems(Tail(els))

\* C20: parse_rss_manually returns the titled items of the document in feed
\* order, each cut down to title, link, description and pubDate, and the empty
\* sequence for a payload that is no well-formed document.
C20_ParseExact ==
    fstep = "parsed" =>
        /\ \A els \in SeqsUpTo(ItemElements, MaxDocItems) :
             rss_content \in { Render(els), << Decl >> \o Render(els) }
                => parsed = TitledItems(els)
        /\ rss_content \notin Documents => parsed = << >>

C20_Witness ==
    /\ fstep = "parsed"
    /\ Len(parsed) = 1
    /\ \E d \in Documents : rss_content = d /\ Len(d) > 12

C20_WitnessMalformed ==
    /\ fstep = "parsed"
    /\ rss_content \notin Documents
    /\ Contains(rss_content, Open("item"))
-----------------------------------------------------------------------------
(* create_safe_filename called for one set of arguments at several times *)

\* calls made for one set of arguments
MaxCalls == 2

\* a title longer than any name create_safe_filename returns untruncated
LongTitle == [i \in 1..(MaxNameLen + 1) |-> "A"]

\* the company values of the calls
Titles ==
    { << >>,
    << "A" >>,
    << "A", " ", "b" >>,
    << " ", "A", " " >>,
    << "A", "/", "b" >>,
    << "a", "\\", "b" >>,
    << ".", "." >>,
    << "A", "\t", "b" >>,
    << "E", "P", "L", " ", "L", "i", "m", "i", "t", "e", "d" >>,
    << "&" >>,
    << "_" >>,
    << "A", ".", "b" >>,
    LongTitle }

\* the pub_date values of the calls
Dates ==
    { << >>,
    << "-" >>,
    << " " >>,
    << "1" >>,
    << "1", "-", "2" >>,
    << "0", "8", "-", "A", "u", "g", "-", "2", "0", "2", "5", " ", "2", "1", ":", "1", "4", ":", "2", "2" >>,
    << ".", ".", "/" >>,
    << ":", "_" >> }

\* the file_url values of the calls
Urls ==
    { << "x", ".", "p", "d", "f" >>,
    << "t", "e", "s", "t", ".", "x", "m", "l" >>,
    << "x" >>,
    << >>,
    << "x", ".", "P", "D", "F" >>,
    << "a", "/", "b", ".", "x", "m", "l" >> }

\* the moments datetime.now() is read at
Clock == 0..1

\* a caller about to name a file
SanInit ==
    /\ Init
    /\ variant = "Complete"
    /\ download_pdfs

\* filename = self.create_safe_filename(company, pub_date, file_url), first call
FirstCall ==
    /\ names = << >>
    /\ \E t \in Titles, d \in Dates, u \in Urls, n \in Clock :
         /\ call' = [company |-> t, pub_date |-> d, file_url |-> u]
         /\ names' = << [now |-> n, name |-> create_safe_filename(t, d, u, NowStr(n))] >>
    /\ UNCHANGED << users, reqs, stream, feed_items, xml_content, items_processed, streamed, spc, aborted, check_interval, slept, num_threads, file_size, futures, part_files, outfile, combined, completed, mpc, mret, last_check_time, fstep, response, rss_content, parsed, fell_back,
                    variant, methods,
                    download_pdfs, pc, cycle, restarts, items, idx, new_count, seen_items,
                    cacheFile, retryFile, pending, disk, dl, log, failed_log, downloads,
                    failures, durable_queue, retried, fetched, skipped, persisted_seen >>

\* the same call made again, at the same or another time
NextCall ==
    /\ names # << >>
    /\ Len(names) < MaxCalls
    /\ \E n \in Clock :
         names' = Append(names,
                         [now |-> n,
                          name |-> create_safe_filename(call.company, call.pub_date,
                                                        call.file_url, NowStr(n))])
    /\ UNCHANGED << users, reqs, stream, feed_items, xml_content, items_processed, streamed, spc, aborted, check_interval, slept, num_threads, file_size, futures, part_files, outfile, combined, completed, mpc, mret, last_check_time, call, fstep, response, rss_content, parsed, fell_back,
                    variant, methods,
                    download_pdfs, pc, cycle, restarts, items, idx, new_count, seen_items,
                    cacheFile, retryFile, pending, disk, dl, log, failed_log, downloads,
                    failures, durable_queue, retried, fetched, skipped, persisted_seen >>

SanNext == FirstCall \/ NextCall

SanSpec == SanInit /\ [][SanNext]_vars

\* sub occurs in s
Infix(sub, s) == \E i \in 0..(Len(s) - Len(sub)) : SubSeq(s, i + 1, i + Len(sub)) = sub

\* s holds a letter or a digit
HasAlNum(s) == \E i \in 1..Len(s) : s[i] \in AlNum

\* C21 (as claimed): with a non-empty publishedAt, calls made at different
\* times return the same filename.
C21_SameNameAtAnyTime ==
    call.pub_date # << >> =>
        \A i, j \in 1..Len(names) : names[i].name = names[j].name

\* C21 (amended): with a non-empty publishedAt, calls made at different times
\* return the same filename whenever the title or publishedAt holds a letter or
\* digit; otherwise the name is the fallback name, which carries the time of
\* the call.
C21_SameNameUnlessFallback ==
    call.pub_date # << >> =>
        IF HasAlNum(call.company) \/ HasAlNum(call.pub_date)
        THEN \A i, j \in 1..Len(names) : names[i].name = names[j].name
        ELSE \A i \in 1..Len(names) :
                names[i].name = FallbackPrefix \o NowStr(names[i].now)
                                    \o (IF EndsWith(call.file_url, XML) THEN XML ELSE PDF)

C21_Witness ==
    /\ call = [company |-> << "E", "P", "L", " ", "L", "i", "m", "i", "t", "e", "d" >>,
               pub_date |-> << "0", "8", "-", "A", "u", "g", "-", "2", "0", "2", "5", " ",
                               "2", "1", ":", "1", "4", ":", "2", "2" >>,
               file_url |-> << "x", ".", "p", "d", "f" >>]
    /\ Len(names) = 2
    /\ names[1].now # names[2].now
    /\ names[1].name = << "E", "P", "L", "_", "L", "i", "m", "i", "t", "e", "d", "_",
                          "0", "8", "A", "u", "g", "2", "0", "2", "5", "_",
                          "2", "1", "1", "4", "2", "2", ".", "p", "d", "f" >>

\* C22: create_safe_filename returns a non-empty name of ASCII letters, digits
\* and underscores followed by the extension, whose dot is the only dot: no
\* '/' and no '\' is in it.
C22_SafeSegment ==
    \A i \in 1..Len(names) :
        LET name == names[i].name
        IN  /\ Len(name) > 4
            /\ SubSeq(name, Len(name) - 3, Len(name)) \in {PDF, XML}
            /\ \A k \in 1..(Len(name) - 4) : name[k] \in AlNum \cup {"_"}

C22_Witness ==
    /\ names # << >>
    /\ Infix(<< "/" >>, call.company)
    /\ Infix(<< ".", ".", "/" >>, call.pub_date)
    /\ Infix(<< "/" >>, call.file_url)

\* C23: the returned name is at most 200 characters long and ends with '.xml'
\* when the url ends with '.xml' and with '.pdf' otherwise.
C23_LengthAndExtension ==
    \A i \in 1..Len(names) :
        LET name == names[i].name
        IN  /\ Len(name) <= 200
            /\ Len(name) >= 4
            /\ SubSeq(name, Len(name) - 3, Len(name))
                 = (IF EndsWith(call.file_url, << ".", "x", "m", "l" >>)
                    THEN << ".", "x", "m", "l" >>
                    ELSE << ".", "p", "d", "f" >>)

C23_Witness ==
    /\ names # << >>
    /\ call.company = LongTitle
    /\ EndsWith(call.file_url, XML)
    /\ Len(names[1].name) = TruncLen + 4

\* C30 (as claimed): when publishedAt holds no letter and no digit, the name
\* carries the time of the call in the place of the date.
C30_TimestampForBlankDate ==
    (~HasAlNum(call.pub_date) /\ call.company # LongTitle) =>
        \A i \in 1..Len(names) : Infix(NowStr(names[i].now), names[i].name)

C25_NoEscapeFromStrategy ==
    /\ dl.escaped = ""
    /\ (pc = "dl_done" /\ dl.result = "Raised") => Len(dl.invoked) = Len(methods)

\* C26 (as claimed): the stop signal leaves no partially written file at a
\* target path that held none before it.
C26_StopLeavesNoPartialFile ==
    [][(pc # "stopped" /\ pc' = "stopped") =>
          \A f \in Filenames : disk'[f].st = "partial" => disk[f].st = "partial"]_vars

\* C27 (as claimed): two records of a cycle with different RecordIDs and
\* downloadable links get different target filenames, and a download that
\* returns Success because the file exists found the file of its own url.
C27_OwnFilePerRecord ==
    variant \in Monitors =>
        /\ \A i, j \in 1..Len(items) :
             ( /\ RecordID(items[i]) # RecordID(items[j])
               /\ Supported(variant, items[i].link)
               /\ Supported(variant, items[j].link) )
                => TargetFilename(variant, items[i], NowStr(cycle % 2))
                     # TargetFilename(variant, items[j], NowStr(cycle % 2))
        /\ (Returned /\ dl.result = "Success" /\ dl.invoked = << >>)
              => dl.pre.src = dl.url

\* C27, the consequence alone: a download returns Success without a strategy
\* run only on the file of its own url.
C27_SkipOnlyOwnFile ==
    (variant \in Monitors /\ Returned /\ dl.result = "Success" /\ dl.invoked = << >>)
        => dl.pre.src = dl.url

-----------------------------------------------------------------------------
(* The API server: POST /api/register handled by the threads of the pool *)

\* the username and password values of the request bodies; "" is a missing one
Usernames == {"", "alice", "bob"}
Passwords == {"", "secret"}

\* user_data = request.get_json(); username, password = user_data.get(...)
Receive(t) ==
    /\ reqs[t].at = "idle"
    /\ \E u \in Usernames, p \in Passwords :
         reqs' = [reqs EXCEPT ![t] = [Idle EXCEPT !.at = "validate", !.username = u,
                                                   !.password = p]]
    /\ UNCHANGED users

\* if not username or not password: return 400
Validate(t) ==
    /\ reqs[t].at = "validate"
    /\ reqs' = [reqs EXCEPT ![t] =
                  IF @.username = "" \/ @.password = ""
                  THEN [@ EXCEPT !.at = "done", !.status = 400, !.error = "required"]
                  ELSE [@ EXCEPT !.at = "find"]]
    /\ UNCHANGED users

\* users.find_one({"username": username})
find_one(coll, username) == \E i \in 1..Len(coll) : coll[i].username = username

\* if users.find_one({"username": username}): return 400 "Username already exists"
Find(t) ==
    /\ reqs[t].at = "find"
    /\ reqs' = [reqs EXCEPT ![t] =
                  IF find_one(users, @.username)
                  THEN [@ EXCEPT !.at = "done", !.status = 400, !.error = "already exists"]
                  ELSE [@ EXCEPT !.at = "insert"]]
    /\ UNCHANGED users

\* users.insert_one({...}); return 201
Insert(t) ==
    /\ reqs[t].at = "insert"
    /\ users' = Append(users, [username |-> reqs[t].username, by |-> t])
    /\ reqs' = [reqs EXCEPT ![t] = [@ EXCEPT !.at = "done", !.status = 201]]

\* the response is sent, the thread takes the next request
Respond(t) ==
    /\ reqs[t].at = "done"
    /\ Len(users) < MaxRequests + 1
    /\ reqs' = [reqs EXCEPT ![t] = Idle]
    /\ UNCHANGED users

Register(t) ==
    /\ \/ Receive(t)
       \/ Validate(t)
       \/ Find(t)
       \/ Insert(t)
       \/ Respond(t)
    /\ UNCHANGED << stream, feed_items, xml_content, items_processed, streamed, spc, aborted, check_interval, slept, num_threads, file_size, futures, part_files, outfile, combined, completed, mpc, mret, last_check_time, call, names, fstep, response, rss_content, parsed,
                    fell_back, variant, methods, download_pdfs, pc, cycle, restarts,
                    items, idx, new_count, seen_items, cacheFile, retryFile, pending,
                    disk, dl, log, failed_log, downloads, failures, durable_queue,
                    retried, fetched, skipped, persisted_seen >>

ApiInit == Init /\ variant = "Complete" /\ download_pdfs

ApiNext == \E t \in Threads : Register(t)

ApiSpec == ApiInit /\ [][ApiNext]_vars

\* C28 (as claimed): after any requests, concurrent ones included, the users
\* collection holds at most one user per username.
C28_OneUserPerUsername ==
    \A i, j \in 1..Len(users) : users[i].username = users[j].username => i = j

\* C29 (as claimed): every entry of the persisted retry queue has a url with a
\* downloadable suffix (.pdf or .xml): a record whose link is no downloadable
\* artifact leaves no entry.
C29_QueueOnlyExhausted ==
    \A i \in 1..Len(read_retry_queue(retryFile)) :
        LET url == read_retry_queue(retryFile)[i].url
        IN  EndsWith(url, PDF) \/ EndsWith(url, XML)

-----------------------------------------------------------------------------
(* The multi-part strategy: NSEDownloader.method4_threaded_download with its
   workers download_chunk *)

\* largest content-length the HEAD response announces
MaxSize == 4
\* largest num_threads the strategy is called with (its default is 4)
MaxThreads == 4

\* for i in range(num_threads)
Parts(n) == 0..(n - 1)

\* chunk_size = file_size // num_threads
chunk_size(S, n) == S \div n

\* start = i * chunk_size
start(S, n, i) == i * chunk_size(S, n)

\* end = start + chunk_size - 1 if i < num_threads - 1 else file_size - 1
end(S, n, i) == IF i < n - 1 THEN start(S, n, i) + chunk_size(S, n) - 1 ELSE S - 1

\* the bytes a range names
RangeBytes(a, b) == { k \in 0..MaxSize + 1 : a <= k /\ k <= b }

\* the artifact on the server: byte k is written as its offset k
Body(S) == [k \in 1..S |-> k - 1]

\* the bytes a..b of the artifact, b cut to its last byte
Slice(S, a, b) ==
    LET last == IF b < S - 1 THEN b ELSE S - 1
    IN  [k \in 1..(last - a + 1) |-> a + k - 1]

\* the body of an error response, no byte of the artifact
ErrorBody == << 0 - 1 >>

\* response = self.session.get(url, headers={'Range': f'bytes={start}-{end}'}):
\* what a server can answer: 206 with the range, 200 with the whole body (the
\* range is ignored, as a malformed one is), or an error status with its page
Responses(S, a, b) ==
    (IF 0 <= a /\ a <= b /\ a < S
     THEN { [kind |-> "partial", content |-> Slice(S, a, b)] }
     ELSE {})
    \cup { [kind |-> "whole", content |-> Body(S)],
           [kind |-> "error", content |-> ErrorBody] }

\* a future: not submitted yet, running, done or raised; with the response its
\* worker got
Future(state, kind, content) == [state |-> state, kind |-> kind, content |-> content]

chunk_files_Reversed(n) == [k \in 1..n |-> n - k]

\* chunk_files: the part files in the order the submit loop appends them
chunk_files(n) == [k \in 1..n |-> k - 1]

\* method4_threaded_download(url, filename, num_threads) is called
Method4Call ==
    /\ mpc = "idle"
    /\ \E n \in 1..MaxThreads : num_threads' = n
    /\ mpc' = "head"
    /\ UNCHANGED << file_size, futures, part_files, outfile, combined, completed, mret >>

\* head_response = self.session.head(url, timeout=30): it raises, or carries
\* no content-length (the strategy hands over to method1), or announces the size
HeadRequest ==
    /\ mpc = "head"
    /\ \/ /\ mpc' = "returned"
          /\ mret' \in {"False", "method1"}
          /\ UNCHANGED << file_size, futures, part_files >>
       \/ /\ \E S \in 1..MaxSize : file_size' = S
          /\ futures' = [i \in Parts(num_threads) |-> Future("unsubmitted", "none", << >>)]
          /\ part_files' = [i \in Parts(num_threads) |-> NoFile]
          /\ mpc' = "submit"
          /\ UNCHANGED mret
    /\ UNCHANGED << num_threads, outfile, combined, completed >>

\* future = executor.submit(download_chunk, start, end, chunk_filename), one
\* part per pass of the for loop
Submit ==
    /\ mpc = "submit"
    /\ LET todo == { i \in Parts(num_threads) : futures[i].state = "unsubmitted" }
       IN  IF todo = {}
           THEN mpc' = "wait" /\ UNCHANGED futures
           ELSE LET i == CHOOSE j \in todo : \A k \in todo : j <= k
                IN  /\ futures' = [futures EXCEPT ![i].state = "running"]
                    /\ UNCHANGED mpc
    /\ UNCHANGED << num_threads, file_size, part_files, outfile, combined, completed, mret >>

\* download_chunk(start, end, chunk_filename) runs in its worker thread: the
\* get raises, or response.content is written to the part file whatever the
\* status of the response
Worker(i) ==
    /\ mpc \in {"submit", "wait"}
    /\ futures[i].state = "running"
    /\ \/ /\ futures' = [futures EXCEPT ![i].state = "raised"]
          /\ UNCHANGED part_files
       \/ \E r \in Responses(file_size, start(file_size, num_threads, i),
                             end(file_size, num_threads, i)) :
            /\ futures' = [futures EXCEPT ![i] = Future("done", r.kind, r.content)]
            /\ part_files' = [part_files EXCEPT ![i] = [exists |-> TRUE, bytes |-> r.content]]
    /\ completed' = Append(completed, i)
    /\ UNCHANGED << num_threads, file_size, outfile, combined, mpc, mret >>

\* for future in as_completed(futures): future.result(), then the exit of the
\* with block (shutdown(wait=True)): with every worker finished the strategy
\* opens the target when no future raised, else the exception reaches
\* except Exception and it returns False
Wait ==
    /\ mpc = "wait"
    /\ \A i \in Parts(num_threads) : futures[i].state \in {"done", "raised"}
    /\ IF \E i \in Parts(num_threads) : futures[i].state = "raised"
       THEN mpc' = "returned" /\ mret' = "False" /\ UNCHANGED outfile
       ELSE mpc' = "combine" /\ outfile' = [exists |-> TRUE, bytes |-> << >>]
                             /\ UNCHANGED mret
    /\ UNCHANGED << num_threads, file_size, futures, part_files, combined, completed >>

\* for chunk_file in chunk_files: outfile.write(infile.read());
\* os.remove(chunk_file), one part per pass; return True after the last
Combine ==
    /\ mpc = "combine"
    /\ IF combined = num_threads
       THEN mpc' = "returned" /\ mret' = "True"
                              /\ UNCHANGED << outfile, part_files, combined >>
       ELSE LET i == chunk_files(num_threads)[combined + 1]
            IN  /\ outfile' = [outfile EXCEPT !.bytes = @ \o part_files[i].bytes]
                /\ part_files' = [part_files EXCEPT ![i] = NoFile]
                /\ combined' = combined + 1
                /\ UNCHANGED << mpc, mret >>
    /\ UNCHANGED << num_threads, file_size, futures, completed >>

\* reading a part or writing the target raises (OSError): except Exception,
\* return False
CombineRaises ==
    /\ mpc = "combine"
    /\ combined < num_threads
    /\ mpc' = "returned"
    /\ mret' = "False"
    /\ UNCHANGED << num_threads, file_size, futures, part_files, outfile, combined,
                    completed >>

Method4 ==
    /\ \/ Method4Call
       \/ HeadRequest
       \/ Submit
       \/ \E i \in Parts(num_threads) : Worker(i)
       \/ Wait
       \/ Combine
       \/ CombineRaises
    /\ UNCHANGED << users, reqs, stream, feed_items, xml_content, items_processed, streamed, spc, aborted, check_interval, slept, last_check_time, call, names, fstep, response,
                    rss_content, parsed, fell_back, variant, methods, download_pdfs,
                    pc, cycle, restarts, items, idx, new_count, seen_items, cacheFile,
                    retryFile, pending, disk, dl, log, failed_log, downloads, failures,
                    durable_queue, retried, fetched, skipped, persisted_seen >>

PartInit == Init /\ variant = "Downloader"

PartNext == Method4

PartSpec == PartInit /\ [][PartNext]_vars

\* the strategy has requested its ranges
Probed == mpc \in {"submit", "wait", "combine"} \/ (mpc = "returned" /\ file_size > 0)

\* C31 (as claimed): for every size S >= 1 and worker count n >= 1 the ranges
\* requested are well-formed (start <= end), pairwise disjoint, increasing with
\* the part index, and together cover exactly the bytes 0..S-1.
C31_RangesPartition ==
    Probed =>
      LET S == file_size
          n == num_threads
      IN  /\ \A i \in Parts(n) : start(S, n, i) <= end(S, n, i)
          /\ \A i, j \in Parts(n) :
               i < j => /\ end(S, n, i) < start(S, n, j)
                        /\ RangeBytes(start(S, n, i), end(S, n, i))
                             \cap RangeBytes(start(S, n, j), end(S, n, j)) = {}
          /\ UNION { RangeBytes(start(S, n, i), end(S, n, i)) : i \in Parts(n) }
               = 0..(S - 1)

\* C32: concatenation starts only after every worker has finished; the parts
\* are joined in part-index order whatever the order of completion; a part
\* file is deleted once it is joined and not before; and if a worker fails no
\* target file is assembled and the strategy returns Failure.
C32_JoinAfterBarrier ==
    /\ (mpc = "combine" \/ outfile.exists) =>
         \A i \in DOMAIN futures : futures[i].state = "done"
    /\ outfile.exists =>
         /\ outfile.bytes = Flatten([k \in 1..combined |-> futures[k - 1].content])
         /\ \A i \in DOMAIN part_files : part_files[i].exists <=> i >= combined
    /\ (\E i \in DOMAIN futures : futures[i].state = "raised") =>
         /\ ~outfile.exists
         /\ mpc = "returned" => mret = "False"
    /\ mret = "True" => combined = num_threads

\* three workers finish in the order 2, 0, 1 and the target is assembled
C32_Witness ==
    /\ mret = "True"
    /\ completed = << 2, 0, 1 >>
    /\ file_size = 4
    /\ outfile.bytes = Body(file_size)

\* C33 (as claimed): the strategy returns Success only if the assembled target
\* is exactly the file_size bytes the HEAD response announced; the body of an
\* error response, or a whole body sent for a range, is in no file reported
\* as Success.
C33_SuccessIsExactBody ==
    mret = "True" =>
      /\ outfile.bytes = Body(file_size)
      /\ \A i \in DOMAIN futures :
           futures[i].kind = "partial" \/ (futures[i].kind = "whole" /\ num_threads = 1)

\* C34 (as claimed): NSEDownloader.smart_download never overwrites or deletes
\* a non-empty file that was at the target path before the call, whether the
\* call ends in Success or in Failure.
C34_ExistingFileKept ==
    (variant = "Downloader" /\ pc # "sleep" /\ NonEmpty(dl.pre))
        => disk[dl.filename] = dl.pre

\* the text of a log file: its entries one after the other, each with the
\* characters that end it
Text(entries) == Flatten([i \in 1..Len(entries) |-> entries[i].filename \o entries[i].end])

\* the number of lines reading the text back gives (len(f.readlines()))
readlines(text) ==
    Cardinality({ i \in 1..Len(text) : text[i] = "\n" })
      + (IF text # << >> /\ text[Len(text)] # "\n" THEN 1 ELSE 0)

\* C35 (as claimed): the k entries written to the success log, and to the
\* failure log, read back as k lines (each is newline-terminated); a download
\* completed by a strategy has its line in the success log, naming the file
\* and the strategy; a download that exhausted all strategies has its line in
\* the failure log.
C35_OneLinePerEvent ==
    variant \in FallbackMonitors =>
      /\ readlines(Text(log)) = Len(log)
      /\ readlines(Text(failed_log)) = Len(failed_log)
      /\ (Returned /\ dl.result = "Success" /\ dl.invoked # << >>) =>
           /\ log # << >>
           /\ Last(log).filename = dl.filename
           /\ Last(log).strategy = Last(dl.invoked)
      /\ (Returned /\ dl.result = "Failure" /\ dl.invoked = methods) =>
           /\ failed_log # << >>
           /\ Last(failed_log).filename = dl.filename

-----------------------------------------------------------------------------
(* The run loop of a monitor built with a configured check_interval *)

\* the check_interval values a monitor is built with: below, at and above the
\* delay of the except branch; the last is the default
Intervals == {30, 60, DefaultInterval}

LoopInit == (\E interval \in Intervals : Constructed(interval)) /\ variant \in Monitors

LoopNext == PollerStep

LoopSpec == LoopInit /\ [][LoopNext]_vars

\* while the loop sleeps no cycle is in progress: the next cycle starts only
\* from the sleep, with no item list and no download of the cycle before
NoOverlap ==
    pc \in {"sleep", "cooldown"} => (items = << >> /\ idx = 1 /\ dl = NoCall)

C37_AbortedNotLostAsSeen ==
    \A a \in aborted :
        (a.id \in seen_items \/ a.id \in load_cache(cacheFile))
            => \/ Exists(disk[a.filename])
               \/ InQueue(a.url, a.filename, read_retry_queue(retryFile))

\* C38 (as claimed): the persisted retry queue never holds two entries for the
\* same (url, filename), whatever the cycles, failed downloads, kills between
\* an enqueue and the cache save, and restarts.
C38_QueueHasNoDuplicates ==
    LET q == read_retry_queue(retryFile)
    IN  \A i, j \in 1..Len(q) :
            (q[i].url = q[j].url /\ q[i].filename = q[j].filename) => i = j

-----------------------------------------------------------------------------
(* The streaming parser: IncrementalNSEMonitor.method2_streaming_xml_parser *)

\* '<item>' and '</item>'
ItemOpen == << "<", "i", "t", "e", "m", ">" >>
ItemClose == << "<", "/", "i", "t", "e", "m", ">" >>

\* an item element with its title
ItemXml(c) ==
    ItemOpen \o << "<", "t", "i", "t", "l", "e", ">", c, "<", "/", "t", "i", "t", "l", "e", ">" >>
             \o ItemClose

\* what precedes the first item of a feed, and what follows the last
ChannelOpen == << "<", "r", "s", "s", ">", "<", "c", "h", "a", "n", "n", "e", "l", ">" >>
ChannelClose == << "<", "/", "c", "h", "a", "n", "n", "e", "l", ">", "<", "/", "r", "s", "s", ">" >>

\* what a feed puts between two elements: nothing, or a line break
Separators == { << >>, << "\n" >> }

\* the titles of the items of a response body
StreamTitles == << "a", "b", "c" >>

\* the response bodies: up to max_items + 1 items, each complete
StreamItems(n) == [k \in 1..n |-> ItemXml(StreamTitles[k])]

StreamBody(n, sep) ==
    ChannelOpen \o Flatten([k \in 1..n |-> sep \o ItemXml(StreamTitles[k])]) \o sep
                \o ChannelClose

\* str.find(sub): the index (from 0) of the first occurrence, -1 for none
find(s, sub) ==
    LET hits == { i \in 0..(Len(s) - Len(sub)) : SubSeq(s, i + 1, i + Len(sub)) = sub }
    IN  IF hits = {} THEN 0 - 1 ELSE CHOOSE i \in hits : \A j \in hits : i <= j

\* s[a:b] for 0 <= a, 0 <= b: the slice ends at the end of s at the latest
PySlice(s, a, b) == SubSeq(s, a + 1, IF b < Len(s) THEN b ELSE Len(s))

\* ET.fromstring(item_xml) returns an element (else it raises ParseError): the
\* string is one closed item element
Parses(item_xml) ==
    /\ Len(item_xml) >= Len(ItemOpen) + Len(ItemClose)
    /\ SubSeq(item_xml, 1, Len(ItemOpen)) = ItemOpen
    /\ SubSeq(item_xml, Len(item_xml) - Len(ItemClose) + 1, Len(item_xml)) = ItemClose
    /\ find(SubSeq(item_xml, 2, Len(item_xml)), ItemOpen) = 0 - 1

\* end = xml_content.find('</item>') + 7
EndOfItem(buf) == find(buf, ItemClose) + 7

\* the while loop run on the content received so far: buf is xml_content,
\* count is items_processed, out the items processed
RECURSIVE drain(_, _, _, _)
drain(buf, count, out, N) ==
    IF find(buf, ItemOpen) # 0 - 1 /\ count < N
    THEN LET first == find(buf, ItemOpen)
             last == EndOfItem(buf)
         IN  IF first # 0 - 1 /\ last # 0 - 1 /\ last > first
             THEN LET item_xml == PySlice(buf, first, last)
                      rest == PySlice(buf, last, Len(buf))
                  IN  IF Parses(item_xml)
                      THEN drain(rest, count + 1, Append(out, item_xml), N)
                      \* except ET.ParseError: the item is printed as an error
                      ELSE drain(rest, count, out, N)
             \* break: need more content
             ELSE [xml_content |-> buf, items_processed |-> count, out |-> out]
    ELSE [xml_content |-> buf, items_processed |-> count, out |-> out]

\* response = requests.get(self.rss_url, timeout=30, stream=True)
StreamGet ==
    /\ spc = "idle"
    /\ \E n \in 0..(max_items + 1), sep \in Separators :
         /\ stream' = StreamBody(n, sep)
         /\ feed_items' = StreamItems(n)
    /\ xml_content' = << >>
    /\ items_processed' = 0
    /\ streamed' = << >>
    /\ spc' = "streaming"

\* one pass of for chunk in response.iter_content(...): the chunk is added to
\* xml_content, the while loop runs, and the for loop ends when enough items
\* were processed or the body is over
StreamChunk ==
    /\ spc = "streaming"
    /\ stream # << >>
    /\ \E k \in 1..Len(stream) :
         LET chunk == SubSeq(stream, 1, k)
             after == drain(xml_content \o chunk, items_processed, streamed, max_items)
         IN  /\ stream' = SubSeq(stream, k + 1, Len(stream))
             /\ xml_content' = after.xml_content
             /\ items_processed' = after.items_processed
             /\ streamed' = after.out
             /\ spc' = IF after.items_processed >= max_items \/ k = Len(stream)
                       THEN "done" ELSE "streaming"
    /\ UNCHANGED feed_items

Method2 ==
    /\ \/ StreamGet
       \/ StreamChunk
    /\ UNCHANGED << users, reqs, aborted, check_interval, slept, num_threads, file_size,
                    futures, part_files, outfile, combined, completed, mpc, mret,
                    last_check_time, call, names, fstep, response,
                    rss_content, parsed, fell_back, variant, methods, download_pdfs,
                    pc, cycle, restarts, items, idx, new_count, seen_items, cacheFile,
                    retryFile, pending, disk, dl, log, failed_log, downloads, failures,
                    durable_queue, retried, fetched, skipped, persisted_seen >>

StreamInit == Init /\ variant = "Incremental" /\ ~download_pdfs

StreamNext == Method2

StreamSpec == StreamInit /\ [][StreamNext]_vars

\* C39 (as claimed): however the body is split into chunks, the streaming
\* parser processes min(N, number of complete items) items: the first ones of
\* the body, each intact and in order.
C39_StreamProcessesFirstN ==
    spc = "done" =>
      LET n == IF Len(feed_items) < max_items THEN Len(feed_items) ELSE max_items
      IN  /\ items_processed = n
          /\ streamed = SubSeq(feed_items, 1, n)
====
